---- MODULE Spec2Model ----
(***************************************************************************)
(* A model of the asynchronous cTrader Open API client runtime:            *)
(*   ctrader_open_api_async/client.py        (AsyncClient)                 *)
(*   ctrader_open_api_async/tcp_protocol.py  (AsyncTcpProtocol)            *)
(*                                                                         *)
(* Spec       the session: start/stop of the service, the map of pending   *)
(*            requests, the callers suspended in send(), the receive task  *)
(*            and the send task, with time abstracted away.                *)
(* SpecSched  the send task alone against a clock, one step of the clock   *)
(*            being one sleep of the task (1 / messages_per_second s).     *)
(* SpecRecv, SpecCallbacks, SpecReentrant                                  *)
(*            the receive task and the callbacks it awaits.                *)
(* SpecAccount, SpecAuth, SpecToken                                        *)
(*            the connector's account calls and the token life cycle.      *)
(* SpecFrame, SpecWrite                                                    *)
(*            the length-prefixed framing, read and written.               *)
(* SpecSerialize, SpecTimeout                                              *)
(*            the forms send() accepts and the wait for the response.      *)
(*                                                                         *)
(* asyncio runs one coroutine at a time and switches only at an await that *)
(* really suspends, so one action is the code between two suspensions.     *)
(***************************************************************************)
EXTENDS Integers, Sequences, FiniteSets, TLC

\* ---------------------------------------------------------------- bounds
NCallers == 2      \* tasks that call AsyncClient.send(), once each, numbered in call order
NUserIds == 1      \* distinct client_msg_id values callers pass in themselves
MaxBeats == 1      \* heartbeats written on one connection in Spec
MaxItems == 3      \* SpecSched: items queued over the whole run
MaxInstant == 1    \* SpecSched: server heartbeats answered over the whole run
MaxInbox == 3      \* SpecRecv: frames the server sends on one connection
NAccounts == 2     \* SpecAccount: trading accounts of the token
MaxOps == 2        \* SpecAccount: account-scoped calls over the whole run
MaxErrors == 2     \* SpecCallbacks: calls of on_error on one protocol object
MaxWall == 5       \* SpecToken: how far the wall clock runs, in units of 5 minutes
MaxRequests == 2   \* SpecToken: POSTs to the token endpoint over the whole run
FallBackAt == 3    \* SpecToken: the instant the local clock of the machine is set back
Fold == 2          \* SpecToken: by how much it is set back (daylight saving ends)
MaxFrames == 2     \* SpecFrame: frames the server writes on one connection
MaxChunks == 2     \* SpecFrame: short reads within one _read_exact()
MaxQueued == 2     \* SpecWrite: messages passed to AsyncTcpProtocol.send() and not dropped
MaxClock == 4      \* SpecTimeout: how far the clock runs
ClientTimeout == 2 \* SpecTimeout: AsyncClient.response_timeout, in steps of the clock

\* client.py:31 and tcp_protocol.py:27 make the rate a parameter (default 5);
\* the model runs it small so that a queue longer than one batch exists.
messages_per_second == 2

Callers == 1..NCallers
NoId == 0                                   \* client_msg_id is None / clientMsgId unset
UserIds == {-k : k \in 1..NUserIds}         \* ids passed in by callers
\* a request frame the client writes, named by the clientMsgId in it
Request(id) == [kind |-> "request", id |-> id]

Min(a, b) == IF a <= b THEN a ELSE b

VARIABLES
    \* ---- AsyncClient
    running,              \* AsyncClient._running
    protocol,             \* AsyncClient.protocol: "none" or "obj"
    client_is_connected,  \* AsyncClient.is_connected
    response_futures,     \* AsyncClient._response_futures: id -> caller owning the Future
    next_uuid,            \* how many ids uuid4() has handed out: they are 1, 2, ...
    \* ---- the callers of AsyncClient.send()
    pc,                   \* where each caller is
    msg_id,               \* the client_msg_id its request was registered under
    future,               \* state of the Future the caller awaits
    response,             \* the envelope set as the Future's result, named by its clientMsgId
    \* ---- AsyncTcpProtocol (the object most recently created)
    conn,                 \* "none", "connecting", "open" (writer set), "failed", "closed"
    protocol_is_connected,\* AsyncTcpProtocol.is_connected
    send_queue,           \* AsyncTcpProtocol._send_queue
    send_task,            \* _message_sender task: "none", "running", "cancelled", "done"
    recv_task,            \* _message_receiver task: "none", "running", "done"
    wire,                 \* request frames written to the socket, in order
    heartbeats,           \* heartbeat frames written to the socket
    \* ---- stop_service() suspended inside disconnect()
    stopping,
    \* ---- history of the current connection
    last_frame,           \* the frame the receive task processed last
    ended_by,             \* how the receive task ended: "none", "eof", "error", "oversize", "closed"
    disconnected_calls,   \* reasons the on-disconnected callback was invoked with
    \* ---- SpecSched
    now,                  \* clock, in sleeps of the send task
    last_send_time,       \* AsyncTcpProtocol._last_send_time: -1 is None
    queue,                \* _send_queue as SpecSched sees it: is_canceled() of each item
    writes,               \* frames written at each of the last ticks, newest first
    last_write,           \* clock of the last frame really written: -1 is never
    beats,                \* heartbeats the send task emitted on its own
    enqueued,             \* items put on the queue so far
    instants,             \* instant sends so far (heartbeats answering the server's)
    batch,                \* ordinals of the items the send task wrote in its last turn
    \* ---- calls that returned at once
    last_noop,            \* the last start_service()/stop_service() that did nothing
    \* ---- SpecRecv: the receive task and the on-message callback
    inbox,                \* frames the server has sent that are not read yet
    arrived,              \* frames the server has sent so far
    recv_pc,              \* "reading", or "callback" while on_message_received runs
    callback_log,         \* calls and returns of the on-message callback, in order
    \* ---- SpecAccount: CTraderAsyncConnector and the account
    current_account_id,   \* CTraderAsyncConnector.current_account_id: 0 is None
    auth_pending,         \* the account of the account-auth request in flight: 0 is none
    authorized,           \* the accounts the server has authorized on this session
    ops,                  \* account-scoped calls made so far, with how they ended
    \* ---- SpecAuth: CTraderAsyncConnector.connect()
    app_auth_id,          \* clientMsgId of the application-auth request: 0 is none sent
    \* ---- SpecCallbacks: the callbacks of the user
    on_error,             \* AsyncTcpProtocol.on_error: "none", or how the callback ends
    raising,              \* which of the user's callbacks of AsyncClient raise when called
    error_calls,          \* calls of on_error that returned
    \* ---- SpecToken: the tokens of CTraderAsyncConnector
    wall_clock,           \* time.time(), in units of 5 minutes
    token,                \* CTraderAsyncConnector.token
    token_file,           \* the JSON object in the file at tokens_path
    token_requests,       \* POSTs sent to the token endpoint
    token_pc,             \* the call suspended in its POST, or "idle"
    token_call,           \* the last call that ended and how
    \* ---- SpecFrame: the bytes of the stream and _message_receiver
    incoming,             \* bytes the server wrote that no read has returned yet
    eof,                  \* the server closed the stream
    framed,               \* the payloads the server framed, in order
    consumed,             \* all the bytes the reads have returned so far
    phase,                \* which _read_exact runs: "prefix", "payload"
    size,                 \* its argument
    data,                 \* the bytes it has collected
    chunks,               \* the reads it has made
    delivered,            \* the payloads handed to _process_message, in order
    split,                \* which _read_exact had a read come back short so far
    \* ---- SpecWrite: the bytes given to the writer and the tasks that write
    socket,               \* all the bytes passed to writer.write() so far
    written,              \* the data of each _send_data() call, in call order
    unwritten,            \* per task: what its _send_data() has still to write
    writer_pc,            \* per task: "idle", "drain" in "await self.writer.drain()",
                          \* "woken" when the drain it waited in has failed
    to_send,              \* turns left of "for _ in range(messages_to_send)"
    lost,                 \* the transport has lost the connection
    \* ---- SpecTimeout and SpecReentrant: the waits of send()
    send_call,            \* per caller: when send() was called, with which response_timeout
    callback_waits        \* the caller whose send() the on-message callback awaits: 0 is none

clientVars == <<running, protocol, client_is_connected, response_futures, next_uuid>>
callerVars == <<pc, msg_id, future, response>>
protoVars == <<conn, protocol_is_connected, send_queue, send_task, recv_task, wire,
               heartbeats>>
histVars == <<last_frame, ended_by, disconnected_calls>>
sessionVars == <<clientVars, callerVars, protoVars, stopping, histVars>>
schedVars == <<now, last_send_time, queue, writes, last_write, beats, enqueued, instants,
               batch>>
recvVars == <<inbox, arrived, recv_pc, callback_log>>
accountVars == <<current_account_id, auth_pending, authorized, ops>>
connectorVars == <<recvVars, accountVars, app_auth_id>>
cbVars == <<on_error, raising, error_calls>>
tokenVars == <<wall_clock, token, token_file, token_requests, token_pc, token_call>>
\* what no action of the session touches
frameVars == <<incoming, eof, framed, consumed, phase, size, data, chunks, delivered,
               split>>
writeVars == <<socket, written, unwritten, writer_pc, to_send, lost>>
waitVars == <<send_call, callback_waits>>
\* the variables of SpecCallbacks, SpecToken, SpecFrame and the later ones together
restVars == <<cbVars, tokenVars, frameVars, writeVars, waitVars>>
offCallbacks == <<schedVars, last_noop, connectorVars, tokenVars, frameVars, writeVars,
                  waitVars>>
\* what the actions of the session leave alone, and what those of the clock do
offSession == <<offCallbacks, cbVars>>
offSched == <<sessionVars, last_noop, connectorVars, restVars>>
offToken == <<sessionVars, schedVars, last_noop, connectorVars, cbVars, frameVars,
              writeVars, waitVars>>
offFrame == <<schedVars, last_noop, connectorVars, cbVars, tokenVars, writeVars, waitVars>>
offWait == <<schedVars, last_noop, connectorVars, cbVars, tokenVars, frameVars, writeVars>>
offWrite == <<schedVars, last_noop, connectorVars, cbVars, tokenVars, frameVars, waitVars>>
vars == <<sessionVars, schedVars, last_noop, connectorVars, restVars>>

\* ------------------------------------------------------- the pending map
\* dict.pop(k, None)
Pop(m, k) == [x \in DOMAIN m \ {k} |-> m[x]]
\* m[k] = v
Put(m, k, v) == [x \in DOMAIN m \cup {k} |-> IF x = k THEN v ELSE m[x]]
EmptyMap == [x \in {} |-> 0]

\* the callers whose Future is in the map and not done
NotDone(m) == {c \in Callers : future[c] = "pending" /\ \E k \in DOMAIN m : m[k] = c}

\* ------------------------------------------------------------ AsyncClient
\* response_timeout of a send() that was given none
NotGiven == -1

\* a caller that has not called send()
NoCall == [at |-> -1, response_timeout |-> NotGiven]

\* the same test without "or not self.protocol"
NotConnectedFlagOnly == ~client_is_connected

\* send(): "if not self.is_connected or not self.protocol"
NotConnected == ~client_is_connected \/ protocol = "none"

\* what send() may be given as message: an inner protobuf message, a message
\* name or payload type (made into an inner message by Protobuf.get), a
\* ProtoMessage envelope built by the caller, or bytes
Forms == {"inner", "name", "envelope", "bytes"}

\* "if client_msg_id:", of an id that is None or a string that is not empty
Truthy(id) == id # NoId

\* _serialize_message(message, client_msg_id), named by the clientMsgId of the
\* envelope in the bytes it returns: an envelope and bytes are passed on as
\* they are, with the clientMsgId the caller put in them (carried); an inner
\* message is wrapped and gets client_msg_id if that is true.
Serialize(form, carried, client_msg_id) ==
    IF form \in {"envelope", "bytes"}
    THEN carried
    ELSE IF Truthy(client_msg_id) THEN client_msg_id ELSE NoId

\* send() up to its first suspension in wait_for: the check, the id, the Future
\* registered, protocol.send() (which raises when the protocol is not connected,
\* and then "except Exception" pops the id again).
Send(c, given, form, carried) ==
    /\ pc[c] = "idle"
    /\ IF c = 1 THEN TRUE ELSE pc[c - 1] # "idle"
    /\ IF NotConnected
       THEN /\ pc' = [pc EXCEPT ![c] = "ConnectionError"]
            /\ UNCHANGED <<response_futures, next_uuid, msg_id, future, send_queue>>
       ELSE LET id == IF given = NoId THEN next_uuid + 1 ELSE given
            IN  /\ next_uuid' = IF given = NoId THEN next_uuid + 1 ELSE next_uuid
                /\ msg_id' = [msg_id EXCEPT ![c] = id]
                /\ IF protocol_is_connected
                   THEN /\ response_futures' = Put(response_futures, id, c)
                        /\ future' = [future EXCEPT ![c] = "pending"]
                        /\ send_queue' = Append(send_queue,
                                                Request(Serialize(form, carried, id)))
                        /\ pc' = [pc EXCEPT ![c] = "waiting"]
                   ELSE /\ response_futures' = Pop(response_futures, id)
                        /\ pc' = [pc EXCEPT ![c] = "ConnectionError"]
                        /\ UNCHANGED <<future, send_queue>>
    /\ UNCHANGED <<running, protocol, client_is_connected, response, conn,
                   protocol_is_connected, send_task, recv_task, wire, heartbeats,
                   stopping, histVars>>

\* send(message, client_msg_id) with an inner message, as every typed request
\* method of AsyncClient calls it
ClientSend(c, given) ==
    /\ Send(c, given, "inner", NoId)
    /\ UNCHANGED offSession

\* send(message, client_msg_id) with any message it accepts; carried is the
\* clientMsgId in an envelope or in bytes the caller built
SendAny(c, given, form, carried) ==
    /\ form \in {"inner", "name"} => carried = NoId
    /\ Send(c, given, form, carried)
    /\ UNCHANGED offSession

\* the response_timeout a send() may be given: none, 0, or a time shorter or
\* longer than the one of the client
ResponseTimeouts == {NotGiven, 0, ClientTimeout - 1, ClientTimeout + 1}

\* "timeout = response_timeout or self.response_timeout": None and 0 are false
WaitTimeout(response_timeout) ==
    IF response_timeout # NotGiven /\ response_timeout # 0
    THEN response_timeout
    ELSE ClientTimeout

\* when wait_for() of caller c gives up
Deadline(c) == send_call[c].at + WaitTimeout(send_call[c].response_timeout)

\* send(message, response_timeout=...) against the clock
TimedSend(c, response_timeout) ==
    /\ Send(c, NoId, "inner", NoId)
    /\ send_call' = [send_call EXCEPT ![c] = [at |-> now,
                                              response_timeout |-> response_timeout]]
    /\ UNCHANGED <<offWait, callback_waits>>

\* asyncio.wait_for reaches its deadline: it cancels the Future; the caller
\* itself runs again only in a later step.
Timeout(c) ==
    /\ pc[c] = "waiting"
    /\ future[c] = "pending"
    /\ future' = [future EXCEPT ![c] = "timed_out"]
    /\ UNCHANGED <<clientVars, pc, msg_id, response, protoVars, stopping,
                   histVars, offSession>>

\* What send() does with its map when the awaited Future is done:
\* TimeoutError and Exception pop the caller's id; a result and a
\* CancelledError (a BaseException) leave the map alone.
AfterWait(c) ==
    IF future[c] \in {"timed_out", "connection_lost"}
    THEN Pop(response_futures, msg_id[c])
    ELSE response_futures

Outcome(c) ==
    CASE future[c] = "result" -> "returned"
      [] future[c] = "timed_out" -> "TimeoutError"
      [] future[c] = "connection_lost" -> "ConnectionError"
      [] OTHER -> "CancelledError"

\* the caller suspended in wait_for runs again
CallerResume(c) ==
    /\ pc[c] = "waiting"
    /\ future[c] # "pending"
    /\ response_futures' = AfterWait(c)
    /\ pc' = [pc EXCEPT ![c] = Outcome(c)]
    /\ UNCHANGED <<running, protocol, client_is_connected, next_uuid, msg_id,
                   future, response, protoVars, stopping, histVars, offSession>>

\* the timer of wait_for() fires
TimeoutDue(c) ==
    /\ now >= Deadline(c)
    /\ Timeout(c)

\* The clock moves on by one step. The event loop is idle: a timer that is
\* due fires, and a task whose Future is done runs, before time passes.
TimePasses ==
    /\ now < MaxClock
    /\ \A c \in Callers :
         pc[c] = "waiting" => (future[c] = "pending" /\ now < Deadline(c))
    /\ now' = now + 1
    /\ UNCHANGED <<sessionVars, last_send_time, queue, writes, last_write, beats,
                   enqueued, instants, batch, last_noop, connectorVars, restVars>>

\* The task suspended in send() is cancelled by its caller: wait_for cancels
\* the Future and CancelledError leaves send(). It is a BaseException, so
\* neither "except asyncio.TimeoutError" nor "except Exception" runs.
CallerCancelled(c) ==
    /\ pc[c] = "waiting"
    /\ future[c] = "pending"
    /\ future' = [future EXCEPT ![c] = "cancelled"]
    /\ pc' = [pc EXCEPT ![c] = "cancelled_by_caller"]
    /\ UNCHANGED <<clientVars, msg_id, response, protoVars, stopping, histVars,
                   offSession>>

\* _on_message_received(): the user's callback runs first; if it raises, the
\* rest is skipped (the exception ends in _safe_call). Otherwise a clientMsgId
\* that is a key of the map is popped and its Future, unless done, gets the
\* envelope.
Matches(f) == ~f.raises /\ f.id # NoId /\ f.id \in DOMAIN response_futures

MapAfterMessage(f) ==
    IF Matches(f) THEN Pop(response_futures, f.id) ELSE response_futures

Completes(f, c) ==
    Matches(f) /\ response_futures[f.id] = c /\ future[c] = "pending"

OnMessageReceived(f) ==
    /\ response_futures' = MapAfterMessage(f)
    /\ future' = [c \in Callers |-> IF Completes(f, c) THEN "result" ELSE future[c]]
    /\ response' = [c \in Callers |->
                      IF Completes(f, c) THEN f.id ELSE response[c]]

\* the same without "self.is_connected = False"
OnDisconnectedKeepsFlag(reason) ==
    /\ client_is_connected' = client_is_connected
    /\ future' = [c \in Callers |->
                    IF future[c] = "pending" /\ \E k \in DOMAIN response_futures :
                                                      response_futures[k] = c
                    THEN "connection_lost" ELSE future[c]]
    /\ response_futures' = [x \in {} |-> 0]
    /\ disconnected_calls' = Append(disconnected_calls, reason)

\* _on_disconnected(reason): every Future of the map that is not done fails
\* with ConnectionError, the map is cleared, the user's callback is called.
OnDisconnected(reason) ==
    /\ client_is_connected' = FALSE
    /\ future' = [c \in Callers |->
                    IF c \in NotDone(response_futures) THEN "connection_lost" ELSE future[c]]
    /\ response_futures' = EmptyMap
    /\ disconnected_calls' = Append(disconnected_calls, reason)

\* -------------------------------------------------------- AsyncTcpProtocol
\* frames of one connection the server may send: an envelope that is not a
\* heartbeat (raises: whether the user's on-message callback raises on it), or
\* a heartbeat. A clientMsgId the server sends is one it has read from a request.
SeenByServer == {wire[i].id : i \in DOMAIN wire}

NoFrame == [kind |-> "none", id |-> NoId, raises |-> FALSE]

Frames ==
    [kind : {"message"}, id : SeenByServer \cup {NoId}, raises : BOOLEAN]
    \cup {[kind |-> "heartbeat", id |-> NoId, raises |-> FALSE]}

\* a frame whose bytes ProtoMessage.ParseFromString() rejects
Undecodable == [kind |-> "undecodable", id |-> NoId, raises |-> FALSE]

\* the frames a server may send when it need not send envelopes
ReceivedFrames == Frames \cup {Undecodable}

\* _handle_error(): with no on_error it returns. Else _safe_call(on_error):
\* when the callback raises, "except Exception" of _safe_call calls
\* _handle_error again, which calls the callback again, and so on to the
\* recursion limit of the interpreter. RecursionError then leaves every
\* _safe_call on the way up, each being inside its own handler.
HandleError == IF on_error = "raises" THEN "RecursionError" ELSE "returned"

\* _safe_call(callback): how it ends when the callback raises or does not
SafeCall(callback_raises) == IF callback_raises THEN HandleError ELSE "returned"

\* the count of on_error calls once n errors went to _handle_error
ErrorCalls(n) == IF on_error = "ok" THEN error_calls + n ELSE error_calls

\* the same without "if not self.is_connected: raise ConnectionError"
HeartbeatUnchecked == heartbeats + 1

\* heartbeat() -> send(instant=True): raises ConnectionError when not
\* connected (_process_message catches it), else writes the frame at once.
AfterHeartbeat ==
    IF protocol_is_connected /\ conn = "open" THEN heartbeats + 1 ELSE heartbeats

\* _process_message(f) has an exception to handle: the bytes do not parse,
\* heartbeat() raised ConnectionError, or the on-message callback raised
\* (which _safe_call handles)
ProcessError(f) ==
    \/ f.kind = "undecodable"
    \/ f.kind = "heartbeat" /\ ~(protocol_is_connected /\ conn = "open")
    \/ f.kind = "message" /\ f.raises

\* how _process_message(f) ends: what leaves _safe_call is caught by
\* "except Exception", whose handler calls _handle_error in its turn
ProcessMessage(f) == IF ProcessError(f) THEN HandleError ELSE "returned"

\* _message_receiver(): one frame read and processed, then the loop condition.
\* An exception that leaves _process_message goes to "except Exception" of
\* the loop, to _handle_error once more, and ends the task after "finally".
ReceiveFrame(f) ==
    /\ recv_task = "running"
    /\ conn = "open"
    /\ last_frame' = f
    /\ IF f.kind = "heartbeat"
       THEN /\ heartbeats < MaxBeats
            /\ heartbeats' = AfterHeartbeat
            /\ UNCHANGED <<response_futures, future, response>>
       ELSE IF f.kind = "undecodable"
            THEN UNCHANGED <<heartbeats, response_futures, future, response>>
            ELSE /\ OnMessageReceived(f)
                 /\ UNCHANGED heartbeats
    /\ IF ProcessError(f)
       THEN ErrorCalls(1) <= MaxErrors /\ error_calls' = ErrorCalls(1)
       ELSE UNCHANGED error_calls
    /\ IF ProcessMessage(f) = "RecursionError"
       THEN /\ recv_task' = "done"
            /\ ended_by' = "RecursionError"
            /\ protocol_is_connected' = FALSE
       ELSE IF protocol_is_connected
            THEN UNCHANGED <<recv_task, ended_by, protocol_is_connected>>
            ELSE /\ recv_task' = "done"
                 /\ ended_by' = "closed"
                 /\ UNCHANGED protocol_is_connected
    /\ UNCHANGED <<running, protocol, client_is_connected, next_uuid, pc, msg_id,
                   conn, send_queue, send_task, wire, stopping,
                   disconnected_calls, offCallbacks, on_error, raising>>

\* _message_receiver() ends: the server closed the stream ("eof"), a read
\* raised ("error"), the length prefix was above MAX_LENGTH ("oversize"), or
\* the client closed the writer itself ("closed"). Only "finally" acts.
Waiting == {c \in Callers : pc[c] = "waiting" /\ future[c] = "pending"}

ReceiverEnds(how) ==
    /\ recv_task = "running"
    /\ IF conn = "open" THEN how \in {"eof", "error", "oversize"} ELSE how = "closed"
    /\ recv_task' = "done"
    /\ protocol_is_connected' = FALSE
    /\ ended_by' = how
    /\ UNCHANGED <<clientVars, callerVars, conn, send_queue, send_task, wire,
                   heartbeats, stopping, last_frame, disconnected_calls, offSession>>

\* one batch of _message_sender(): min(len(queue), messages_per_second) items
messages_to_send(q) == Min(Len(q), messages_per_second)

\* _message_sender(): one turn of the loop after its sleep. With nothing queued
\* it may emit a heartbeat (when, the clock decides: SpecSched); otherwise
\* it writes one batch. AsyncClient passes no is_canceled, so nothing is skipped.
MessageSender ==
    /\ send_task = "running"
    /\ IF ~protocol_is_connected
       THEN /\ send_task' = "done"
            /\ UNCHANGED <<send_queue, wire, heartbeats>>
       ELSE IF send_queue = <<>>
            THEN /\ conn = "open"
                 /\ heartbeats < MaxBeats
                 /\ heartbeats' = heartbeats + 1
                 /\ UNCHANGED <<send_queue, send_task, wire>>
            ELSE /\ wire' = wire \o SubSeq(send_queue, 1, messages_to_send(send_queue))
                 /\ send_queue' = SubSeq(send_queue, messages_to_send(send_queue) + 1,
                                         Len(send_queue))
                 /\ UNCHANGED <<send_task, heartbeats>>
    /\ UNCHANGED <<clientVars, callerVars, conn, protocol_is_connected, recv_task,
                   stopping, histVars, offSession>>

\* ------------------------------------------------------ the user's callbacks
\* protocol.set_error_callback(callback), on the protocol object of the client
SetErrorCallback(how) ==
    /\ protocol = "obj"
    /\ on_error # how
    /\ on_error' = how
    /\ UNCHANGED <<sessionVars, offCallbacks, raising, error_calls>>

\* the callbacks AsyncClient calls without going through a frame
UserCallbacks == {"on_connected", "on_disconnected"}

\* set_connected_callback(callback), set_disconnected_callback(callback)
SetCallback(name, raises) ==
    /\ raising' = IF raises THEN raising \cup {name} ELSE raising \ {name}
    /\ raising' # raising
    /\ UNCHANGED <<sessionVars, offCallbacks, on_error, error_calls>>

\* ------------------------------------------------- start_service / connect
\* the same test never taken
NeverRunning == FALSE

\* start_service(): "if self._running: return"
AlreadyRunning == running

\* start_service() on a running client: it returns at once
StartServiceRunning ==
    /\ AlreadyRunning
    /\ last_noop' = "start_service"
    /\ UNCHANGED <<sessionVars, schedVars, connectorVars, restVars>>

\* start_service() on a client that is not running, up to the suspension in
\* asyncio.open_connection: the flag is set and a new protocol object made.
\* (On a running client it returns at once and changes nothing.) The model
\* follows one protocol object at a time: the next one is made when the tasks
\* and the connection attempt of the last one are over.
StartService ==
    /\ ~AlreadyRunning
    /\ ~stopping
    /\ conn # "connecting" /\ recv_task # "running" /\ send_task # "running"
    /\ running' = TRUE
    /\ protocol' = "obj"
    /\ conn' = "connecting"
    /\ protocol_is_connected' = FALSE
    /\ send_queue' = <<>>
    /\ send_task' = "none"
    /\ recv_task' = "none"
    /\ wire' = <<>>
    /\ heartbeats' = 0
    /\ last_frame' = NoFrame
    /\ ended_by' = "none"
    /\ disconnected_calls' = <<>>
    /\ on_error' = "none"
    /\ error_calls' = 0
    /\ UNCHANGED <<client_is_connected, response_futures, next_uuid, callerVars,
                   stopping, offCallbacks, raising>>

\* connect() after open_connection returned: is_connected, both tasks
\* created, on_connected -> AsyncClient._on_connected, which sets its flag and
\* calls the user's callback. If that raises, _safe_call hands the exception
\* to _handle_error; what leaves _safe_call leaves connect() too, after
\* "except Exception" and one more _handle_error.
ConnectionMade ==
    /\ conn = "connecting"
    /\ conn' = "open"
    /\ protocol_is_connected' = TRUE
    /\ recv_task' = "running"
    /\ send_task' = "running"
    /\ client_is_connected' = TRUE
    /\ IF "on_connected" \in raising
       THEN ErrorCalls(1) <= MaxErrors /\ error_calls' = ErrorCalls(1)
       ELSE UNCHANGED error_calls
    /\ UNCHANGED <<running, protocol, response_futures, next_uuid, callerVars,
                   send_queue, wire, heartbeats, stopping, histVars, offCallbacks,
                   on_error, raising>>

\* connect() when open_connection raised: _handle_error, then the exception
\* leaves start_service(); _running stays set.
ConnectionFailed ==
    /\ conn = "connecting"
    /\ conn' = "failed"
    /\ ErrorCalls(1) <= MaxErrors
    /\ error_calls' = ErrorCalls(1)
    /\ UNCHANGED <<clientVars, callerVars, protocol_is_connected, send_queue,
                   send_task, recv_task, wire, heartbeats, stopping, histVars,
                   offCallbacks, on_error, raising>>

\* --------------------------------------------------- stop_service / disconnect
\* stop_service() on a client that is not running: "if not self._running: return"
StopServiceNotRunning ==
    /\ ~running
    /\ last_noop' = "stop_service"
    /\ UNCHANGED <<sessionVars, schedVars, connectorVars, restVars>>

\* stop_service(): "for future in ...: if not future.done(): future.cancel()"
FuturesCancelled ==
    [c \in Callers |-> IF c \in NotDone(response_futures) THEN "cancelled" ELSE future[c]]

\* disconnect(): writer.close() if there is a writer
WriterClosed == IF conn = "open" THEN "closed" ELSE conn

\* how disconnect() ends: on_disconnected -> AsyncClient._on_disconnected calls
\* the user's callback last, inside _safe_call
Disconnect == SafeCall("on_disconnected" \in raising)

\* stop_service(): "await self.protocol.disconnect()" then "self.protocol = None"
ProtocolAfterStop == IF Disconnect = "returned" THEN "none" ELSE protocol

\* on_error calls after disconnect() called on_disconnected
ErrorCallsAfterStop ==
    IF "on_disconnected" \in raising THEN ErrorCalls(1) ELSE error_calls

\* stop_service() on a running client up to its first suspension: the flag
\* is cleared, every Future of the map is cancelled, the map is cleared;
\* disconnect() clears is_connected and cancels the send task, which it then
\* awaits. With no send task to await, disconnect() runs through: it closes
\* the writer and calls on_disconnected (which finds the map empty), and
\* stop_service() drops the protocol.
StopService ==
    /\ running
    /\ ~stopping
    /\ running' = FALSE
    /\ future' = FuturesCancelled
    /\ response_futures' = EmptyMap
    /\ IF protocol = "none"
       THEN UNCHANGED <<protocol, client_is_connected, conn, protocol_is_connected,
                        send_task, stopping, disconnected_calls, error_calls>>
       ELSE /\ protocol_is_connected' = FALSE
            /\ IF send_task = "running"
               THEN /\ send_task' = "cancelled"
                    /\ stopping' = TRUE
                    /\ UNCHANGED <<protocol, client_is_connected, conn,
                                   disconnected_calls, error_calls>>
               ELSE /\ conn' = WriterClosed
                    /\ client_is_connected' = FALSE
                    /\ disconnected_calls' = Append(disconnected_calls, "Manual disconnect")
                    /\ ErrorCallsAfterStop <= MaxErrors
                    /\ error_calls' = ErrorCallsAfterStop
                    /\ protocol' = ProtocolAfterStop
                    /\ UNCHANGED <<send_task, stopping>>
    /\ UNCHANGED <<next_uuid, pc, msg_id, response, send_queue, recv_task, wire,
                   heartbeats, last_frame, ended_by, offCallbacks, on_error, raising>>

\* disconnect() runs on once the cancelled send task is over: the writer is
\* closed, on_disconnected("Manual disconnect") called, the protocol dropped
\* unless an exception left disconnect().
StopServiceEnds ==
    /\ stopping
    /\ stopping' = FALSE
    /\ conn' = WriterClosed
    /\ OnDisconnected("Manual disconnect")
    /\ ErrorCallsAfterStop <= MaxErrors
    /\ error_calls' = ErrorCallsAfterStop
    /\ protocol' = ProtocolAfterStop
    /\ UNCHANGED <<running, next_uuid, pc, msg_id, response, protocol_is_connected,
                   send_queue, send_task, recv_task, wire, heartbeats, last_frame,
                   ended_by, offCallbacks, on_error, raising>>

\* --------------------------------------------------------------- SpecSched
HeartbeatIdle == 20                      \* seconds: "... .total_seconds() > 20"
Never == -1                              \* _last_send_time is None

\* The clock counts sleeps of the send task: asyncio.sleep(1.0 / messages_per_second),
\* so one second is messages_per_second steps. Other events fall on the same grid.
Second == messages_per_second
MaxTime == (HeartbeatIdle + 2) * Second + 2

RECURSIVE Sum(_)
Sum(s) == IF s = <<>> THEN 0 ELSE Head(s) + Sum(Tail(s))

\* the same test with >= for >
HeartbeatDueAtIdle(t) ==
    last_send_time = Never \/ t - last_send_time >= HeartbeatIdle * Second

\* "self._last_send_time is None or (now - last).total_seconds() > 20"
HeartbeatDue(t) ==
    last_send_time = Never \/ t - last_send_time > HeartbeatIdle * Second

\* the items of one batch that are written: "if is_canceled and is_canceled(): continue"
Written(items) == SelectSeq(items, LAMBDA canceled : ~canceled)

\* the k-th item ever queued is the one at place k - (enqueued - Len(queue)) of
\* the queue: append() adds on the right, popleft() takes from the left
Ordinal(i) == enqueued - Len(queue) + i

\* the same batch taken with pop() from the right
BatchNewestFirst(n) ==
    LET kept == SelectSeq([i \in 1..n |-> Len(queue) + 1 - i], LAMBDA i : ~queue[i])
    IN  [k \in 1..Len(kept) |-> Ordinal(kept[k])]

\* "for _ in range(messages_to_send): is_canceled, data = popleft(); if
\* is_canceled and is_canceled(): continue; await self._send_data(data)":
\* the ordinals of the items written, in the order written
Batch(n) ==
    LET kept == SelectSeq([i \in 1..n |-> i], LAMBDA i : ~queue[i])
    IN  [k \in 1..Len(kept) |-> Ordinal(kept[k])]

\* what a turn that found items queued stores in _last_send_time
AfterBatch(t, sent) == t

\* _message_sender(): the sleep, then one turn of the loop, at time now + 1
SenderTurn ==
    /\ now < MaxTime
    /\ now' = now + 1
    /\ IF queue = <<>>
       THEN /\ IF HeartbeatDue(now + 1)
               THEN /\ beats' = beats + 1
                    /\ last_send_time' = now + 1
                    /\ last_write' = now + 1
               ELSE UNCHANGED <<beats, last_send_time, last_write>>
            /\ writes' = <<0>> \o SubSeq(writes, 1, Len(writes) - 1)
            /\ batch' = <<>>
            /\ UNCHANGED queue
       ELSE LET n == messages_to_send(queue)
                sent == Len(Written(SubSeq(queue, 1, n)))
            IN  /\ queue' = SubSeq(queue, n + 1, Len(queue))
                /\ last_send_time' = AfterBatch(now + 1, sent)
                /\ last_write' = IF sent > 0 THEN now + 1 ELSE last_write
                /\ writes' = <<sent>> \o SubSeq(writes, 1, Len(writes) - 1)
                /\ batch' = Batch(n)
                /\ UNCHANGED beats
    /\ UNCHANGED <<enqueued, instants, offSched>>

\* AsyncTcpProtocol.send(message, is_canceled=...) on a connected protocol:
\* the item joins the queue; canceled is what is_canceled() says at dequeue.
Enqueue(canceled) ==
    /\ enqueued < MaxItems
    /\ enqueued' = enqueued + 1
    /\ queue' = Append(queue, canceled)
    /\ UNCHANGED <<now, last_send_time, writes, last_write, beats, instants, batch,
                   offSched>>

\* AsyncTcpProtocol.send(message, instant=True), as heartbeat() does when the
\* receive task answers a server heartbeat: written at once, time recorded.
InstantSend ==
    /\ instants < MaxInstant
    /\ instants' = instants + 1
    /\ last_send_time' = now
    /\ last_write' = now
    /\ UNCHANGED <<now, queue, writes, beats, enqueued, batch, offSched>>

\* ---------------------------------------------------------------- SpecRecv
\* The receive task frame by frame, with an on-message callback that may be a
\* coroutine and suspend: what else runs between its call and its return.

\* the frames the server sends here: how a callback that raises leaves the
\* pending map is followed in Spec (ReceiveFrame), so here the callback returns
RecvFrames == {f \in Frames : ~f.raises}

\* the server sends a frame: it waits in the stream until the receive task reads it
ServerSends(f) ==
    /\ conn = "open"
    /\ arrived < MaxInbox
    /\ arrived' = arrived + 1
    /\ inbox' = Append(inbox, [kind |-> f.kind, id |-> f.id, raises |-> f.raises,
                               n |-> arrived + 1])
    /\ UNCHANGED <<sessionVars, schedVars, last_noop, restVars, recv_pc, callback_log,
                   accountVars, app_auth_id>>

\* the same with one task made per message, never awaited
ReceiverFreeAlways == TRUE

\* "await self._process_message(message_data)": the loop reads the next frame
\* only when the processing of the last one is over
ReceiverFree == recv_pc = "reading"

\* the frame at the head of the stream, as _process_message sees it
HeadFrame == [kind |-> Head(inbox).kind, id |-> Head(inbox).id, raises |-> Head(inbox).raises]

CallEvent(n) == [ev |-> "call", n |-> n]
ReturnEvent(n) == [ev |-> "return", n |-> n]

\* _message_receiver(): one frame read. A heartbeat is answered by heartbeat()
\* and goes no further. Any other envelope goes to on_message_received, whose
\* user callback either runs through (suspends = FALSE) or suspends.
ReceiverReads(suspends) ==
    /\ recv_task = "running"
    /\ conn = "open"
    /\ ReceiverFree
    /\ inbox # <<>>
    /\ inbox' = Tail(inbox)
    /\ last_frame' = HeadFrame
    /\ IF Head(inbox).kind = "heartbeat"
       THEN /\ ~suspends
            /\ heartbeats' = AfterHeartbeat
            /\ UNCHANGED <<response_futures, future, response, recv_pc, callback_log>>
       ELSE IF suspends
            THEN /\ callback_log' = Append(callback_log, CallEvent(Head(inbox).n))
                 /\ recv_pc' = "callback"
                 /\ UNCHANGED <<response_futures, future, response, heartbeats>>
            ELSE /\ callback_log' = callback_log \o <<CallEvent(Head(inbox).n),
                                                       ReturnEvent(Head(inbox).n)>>
                 /\ OnMessageReceived(HeadFrame)
                 /\ UNCHANGED <<heartbeats, recv_pc>>
    /\ IF protocol_is_connected \/ (Head(inbox).kind # "heartbeat" /\ suspends)
       THEN UNCHANGED <<recv_task, ended_by>>
       ELSE recv_task' = "done" /\ ended_by' = "closed"
    /\ UNCHANGED <<running, protocol, client_is_connected, next_uuid, pc, msg_id,
                   conn, protocol_is_connected, send_queue, send_task, wire, stopping,
                   disconnected_calls, schedVars, last_noop, restVars, arrived, accountVars,
                   app_auth_id>>

\* the suspended callback returns: the rest of _on_message_received, then
\* the loop condition
CallbackReturns ==
    /\ recv_pc = "callback"
    /\ recv_pc' = "reading"
    /\ callback_log' = Append(callback_log,
                              ReturnEvent(callback_log[Len(callback_log)].n))
    /\ OnMessageReceived(last_frame)
    /\ IF protocol_is_connected
       THEN UNCHANGED <<recv_task, ended_by>>
       ELSE recv_task' = "done" /\ ended_by' = "closed"
    /\ UNCHANGED <<running, protocol, client_is_connected, next_uuid, pc, msg_id,
                   conn, protocol_is_connected, send_queue, send_task, wire, heartbeats,
                   stopping, last_frame, disconnected_calls, schedVars, last_noop, restVars,
                   inbox, arrived, accountVars, app_auth_id>>

\* the on-message callback of the user, a coroutine, awaits client.send():
\* send() runs to its suspension in wait_for, inside the callback, which
\* itself runs inside "await self._process_message(...)" of the receive task
CallbackSends(c) ==
    /\ recv_pc = "callback"
    /\ callback_waits = 0
    /\ Send(c, NoId, "inner", NoId)
    /\ callback_waits' = c
    /\ UNCHANGED <<offWait, send_call>>

\* the callback returns once the send() it awaits, if any, has ended
\* (with the response, or with an exception the callback handles)
CallbackEnds ==
    /\ IF callback_waits = 0 THEN TRUE ELSE pc[callback_waits] # "waiting"
    /\ CallbackReturns

\* ------------------------------------------------------------- SpecAccount
\* CTraderAsyncConnector: the current account and the calls that need one.
Accounts == 1..NAccounts

\* set_account(a) up to its suspension in send_account_auth_req: the id is
\* stored before the request is sent
SetAccountBegins(a) ==
    /\ auth_pending = 0
    /\ current_account_id' = a
    /\ auth_pending' = a
    /\ UNCHANGED <<sessionVars, schedVars, last_noop, restVars, recvVars, authorized, ops,
                   app_auth_id>>

\* the account-auth request ends: the server authorized the account, or it
\* answered with an error envelope (send() returns it like any response), or
\* send() raised (timeout, no connection). current_account_id stays as set.
SetAccountEnds(outcome) ==
    /\ auth_pending # 0
    /\ auth_pending' = 0
    /\ authorized' = IF outcome = "authorized"
                     THEN authorized \cup {auth_pending} ELSE authorized
    /\ UNCHANGED <<sessionVars, schedVars, last_noop, restVars, recvVars, current_account_id,
                   ops, app_auth_id>>

\* logout_account() with an account set: the logout request, then
\* "self.current_account_id = None"; if send() raises the id stays
LogoutAccount(ok) ==
    /\ current_account_id # 0
    /\ IF ok
       THEN /\ authorized' = authorized \ {current_account_id}
            /\ current_account_id' = 0
       ELSE UNCHANGED <<authorized, current_account_id>>
    /\ UNCHANGED <<sessionVars, schedVars, last_noop, restVars, recvVars, auth_pending, ops,
                   app_auth_id>>

\* account-scoped calls: get_symbols() tests current_account_id, the orders,
\* historical data and subscriptions pass it on untested
AccountOps == {"get_symbols", "place_market_order", "get_trendbars", "subscribe_spots"}
Guarded == {"get_symbols"}

\* how the call ends in the connector: ValueError("account not set"), the
\* TypeError of assigning None to ctidTraderAccountId, or the request handed
\* to AsyncClient.send()
OpOutcome(op) ==
    IF current_account_id # 0 THEN "sent"
    ELSE IF op \in Guarded THEN "ValueError" ELSE "TypeError"

AccountOp(op) ==
    /\ Len(ops) < MaxOps
    /\ ops' = Append(ops, [op |-> op,
                           authenticated |-> current_account_id \in authorized,
                           outcome |-> OpOutcome(op)])
    /\ UNCHANGED <<sessionVars, schedVars, last_noop, restVars, recvVars, current_account_id,
                   auth_pending, authorized, app_auth_id>>

\* ---------------------------------------------------------------- SpecAuth
\* CTraderAsyncConnector.connect(): start_service() on a new AsyncClient whose
\* connected callback sends the application-auth request.
ConnectTask == 0        \* the task in connect(), owner of the app-auth Future

\* the same with a connected callback that sends nothing
AppAuthNotQueued == send_queue

\* _on_connected -> send_application_auth -> AsyncClient.send -> protocol.send
AppAuthQueued == Append(send_queue, Request(next_uuid + 1))

\* AsyncTcpProtocol.connect() after open_connection returned, with the
\* connector's callback: is_connected, both tasks, AsyncClient._on_connected
\* sets is_connected and calls CTraderAsyncConnector._on_connected, which
\* runs send() for the app-auth request up to its suspension in wait_for.
ConnectorConnectionMade ==
    /\ conn = "connecting"
    /\ conn' = "open"
    /\ protocol_is_connected' = TRUE
    /\ recv_task' = "running"
    /\ send_task' = "running"
    /\ client_is_connected' = TRUE
    /\ IF protocol = "none"
       THEN UNCHANGED <<next_uuid, response_futures, send_queue, app_auth_id>>
       ELSE /\ next_uuid' = next_uuid + 1
            /\ app_auth_id' = next_uuid + 1
            /\ response_futures' = Put(response_futures, next_uuid + 1, ConnectTask)
            /\ send_queue' = AppAuthQueued
    /\ UNCHANGED <<running, protocol, callerVars, wire, heartbeats, stopping, histVars,
                   schedVars, last_noop, restVars, recvVars, accountVars>>

\* --------------------------------------------------------------- SpecToken
\* The wall clock counts units of 5 minutes: "timedelta(minutes=5)" is one.
RefreshMargin == 1

\* expires_in of the tokens the server hands out
ExpiresIns == {2, 4}

NoToken == [no_token |-> TRUE]             \* self.token is None
NoFile == [no_file |-> TRUE]               \* os.path.exists(tokens_path) is false
Null == 0                                  \* None, JSON null

\* a JSON object is a function from its keys; d.get(k, default)
Get(d, k, default) == IF k \in DOMAIN d THEN d[k] ELSE default

\* d.get(k1) or d.get(k2)
GetOr(d, k1, k2) == IF Get(d, k1, Null) # Null THEN d[k1] ELSE Get(d, k2, Null)

\* the fields of the dataclass TokenData; token_type has a default
Fields == {"access_token", "refresh_token", "expires_in", "issued_at", "token_type"}
Required == Fields \ {"token_type"}

\* TokenData(**d) raises TypeError on a missing or an unexpected keyword
TokenDataOk(d) == Required \subseteq DOMAIN d /\ DOMAIN d \subseteq Fields

TokenData(d) ==
    [access_token |-> d["access_token"],
     refresh_token |-> d["refresh_token"],
     expires_in |-> d["expires_in"],
     issued_at |-> d["issued_at"],
     token_type |-> Get(d, "token_type", "Bearer")]

\* datetime.fromtimestamp(t) and datetime.now(): naive local time, which is
\* compared without its offset. The machine's zone is Fold ahead until
\* FallBackAt, when daylight saving ends.
Local(t) == IF t < FallBackAt THEN t + Fold ELSE t

\* ensure_token_valid(): "datetime.now() >= expires_at - timedelta(minutes=5)"
Due(tok, t) == Local(t) >= Local(tok.expires_in + tok.issued_at) - RefreshMargin

\* what the token endpoint may answer to request n: a token, a token with
\* "errorCode": null beside it, an error with or without a description, or
\* an object with neither an error nor an access_token
Granted(n, e) ==
    [access_token |-> n, refresh_token |-> n, expires_in |-> e, token_type |-> "Bearer"]

Responses(n) ==
    {Granted(n, e) : e \in ExpiresIns}
    \cup {[access_token |-> n, refresh_token |-> n, expires_in |-> 2, errorCode |-> Null]}
    \cup {[errorCode |-> 1, description |-> "description"],
          [errorCode |-> 1],
          [token_type |-> "Bearer"]}

Returned == [error |-> "none", message |-> "none"]

\* the same without the test of errorCode
AuthResultUnchecked(result) ==
    IF "access_token" \notin DOMAIN result
    THEN [error |-> "ValueError", message |-> "no access_token"]
    ELSE Returned

\* AsyncAuth.get_token() / refresh_token() on the JSON of the response
AuthResult(result) ==
    IF "errorCode" \in DOMAIN result /\ result["errorCode"] # Null
    THEN [error |-> "ValueError",
          message |-> Get(result, "description", "errorCode")]
    ELSE IF "access_token" \notin DOMAIN result
         THEN [error |-> "ValueError", message |-> "no access_token"]
         ELSE Returned

\* token_data["issued_at"] = datetime.now().timestamp()
Stamped(result) ==
    [k \in DOMAIN result \cup {"issued_at"} |->
        IF k = "issued_at" THEN wall_clock ELSE result[k]]

\* how get_token() / refresh_token() of the connector end on a response
TokenOutcome(result) ==
    IF AuthResult(result) # Returned THEN AuthResult(result)
    ELSE IF ~TokenDataOk(Stamped(result))
         THEN [error |-> "TypeError", message |-> "TokenData"]
         ELSE Returned

\* save_tokens(): json.dump(token_data.__dict__), any exception logged only
SaveTokens(tok, writable) == IF writable THEN tok ELSE token_file

Ended(op, outcome) ==
    [op |-> op, error |-> outcome.error, message |-> outcome.message]

\* the clock moves on
Tick ==
    /\ wall_clock < MaxWall
    /\ wall_clock' = wall_clock + 1
    /\ UNCHANGED <<token, token_file, token_requests, token_pc, token_call, offToken>>

\* token files as an older version left them, with and without issued_at
\* and tokenType
LegacyFiles ==
    {[k \in {"accessToken", "refreshToken", "expiresIn"} \cup more |->
        CASE k = "accessToken" -> 1
          [] k = "refreshToken" -> 1
          [] k = "expiresIn" -> e
          [] k = "issued_at" -> 0
          [] OTHER -> "Bearer"] :
     e \in ExpiresIns, more \in SUBSET {"issued_at", "tokenType"}}

\* the same file with the keys of today
SnakeKey(k) ==
    CASE k = "accessToken" -> "access_token"
      [] k = "refreshToken" -> "refresh_token"
      [] k = "expiresIn" -> "expires_in"
      [] k = "tokenType" -> "token_type"
      [] OTHER -> k

Snake(d) ==
    [k \in {SnakeKey(x) : x \in DOMAIN d} |->
        d[CHOOSE x \in DOMAIN d : SnakeKey(x) = k]]

\* somebody puts a token file at tokens_path
ExternalFile(d) ==
    /\ token_pc = "idle"
    /\ token_file # d
    /\ token_file' = d
    /\ UNCHANGED <<wall_clock, token, token_requests, token_pc, token_call, offToken>>

\* load_tokens(): the token in the old format, normalised
Normalized(d) ==
    [access_token |-> GetOr(d, "accessToken", "access_token"),
     refresh_token |-> GetOr(d, "refreshToken", "refresh_token"),
     expires_in |-> GetOr(d, "expiresIn", "expires_in"),
     token_type |-> Get(d, "tokenType", "Bearer"),
     issued_at |-> Get(d, "issued_at", wall_clock)]

\* load_tokens(): the token it leaves in memory for the file d
Loaded(d) ==
    IF d = NoFile THEN token
    ELSE IF "accessToken" \in DOMAIN d THEN TokenData(Normalized(d))
    ELSE IF TokenDataOk(d) THEN TokenData(d)
    ELSE NoToken

LoadTokens(writable) ==
    /\ token_pc = "idle"
    /\ token' = Loaded(token_file)
    /\ token_file' = IF token_file # NoFile /\ "accessToken" \in DOMAIN token_file
                     THEN SaveTokens(token', writable)
                     ELSE token_file
    /\ token_call' = Ended("load_tokens", Returned)
    /\ UNCHANGED <<wall_clock, token_requests, token_pc, offToken>>

\* get_token(auth_code) up to the POST
GetToken ==
    /\ token_pc = "idle"
    /\ token_requests < MaxRequests
    /\ token_requests' = token_requests + 1
    /\ token_pc' = "get_token"
    /\ UNCHANGED <<wall_clock, token, token_file, token_call, offToken>>

\* refresh_token(): "if not self.token or not self.token.refresh_token"
NoRefreshToken == token = NoToken \/ token.refresh_token = Null

\* refresh_token() called as op, up to the POST
RefreshBegins(op) ==
    IF NoRefreshToken
    THEN /\ token_call' = Ended(op, [error |-> "ValueError", message |-> "no refresh token"])
         /\ UNCHANGED <<token_requests, token_pc>>
    ELSE /\ token_requests < MaxRequests
         /\ token_requests' = token_requests + 1
         /\ token_pc' = op
         /\ UNCHANGED token_call

RefreshToken ==
    /\ token_pc = "idle"
    /\ RefreshBegins("refresh_token")
    /\ UNCHANGED <<wall_clock, token, token_file, offToken>>

\* ensure_token_valid() up to the POST, if it sends one
EnsureTokenValid ==
    /\ token_pc = "idle"
    /\ IF token = NoToken
       THEN /\ token_call' = Ended("ensure_token_valid",
                                   [error |-> "ValueError", message |-> "no token"])
            /\ UNCHANGED <<token_requests, token_pc>>
       ELSE IF Due(token, wall_clock)
            THEN RefreshBegins("ensure_token_valid")
            ELSE /\ token_call' = Ended("ensure_token_valid", Returned)
                 /\ UNCHANGED <<token_requests, token_pc>>
    /\ UNCHANGED <<wall_clock, token, token_file, offToken>>

\* the response to the POST arrives and the suspended call runs to its end
TokenResponse(result, writable) ==
    /\ token_pc # "idle"
    /\ token_pc' = "idle"
    /\ token_call' = Ended(token_pc, TokenOutcome(result))
    /\ IF TokenOutcome(result) = Returned
       THEN /\ token' = TokenData(Stamped(result))
            /\ token_file' = SaveTokens(token', writable)
       ELSE UNCHANGED <<token, token_file>>
    /\ UNCHANGED <<wall_clock, token_requests, offToken>>

\* CTraderAsyncConnector.__init__ with no token file: no token
TokenInit ==
    /\ wall_clock = 0
    /\ token = NoToken
    /\ token_file = NoFile
    /\ token_requests = 0
    /\ token_pc = "idle"
    /\ token_call = Ended("init", Returned)

\* --------------------------------------------------------------- SpecFrame
MAX_LENGTH == 15000000

\* A byte string is kept as its runs: <<[byte |-> v, count |-> n], ...>> is n
\* bytes v, and so on, no two neighbours with the same byte and no empty run.
Run(v, n) == IF n = 0 THEN <<>> ELSE <<[byte |-> v, count |-> n]>>

\* len(s)
RECURSIVE Size(_)
Size(s) == IF s = <<>> THEN 0 ELSE Head(s).count + Size(Tail(s))

\* s + t
Cat(s, t) ==
    IF s = <<>> THEN t
    ELSE IF t = <<>> THEN s
    ELSE IF s[Len(s)].byte = t[1].byte
         THEN SubSeq(s, 1, Len(s) - 1)
              \o <<[byte |-> t[1].byte, count |-> s[Len(s)].count + t[1].count]>>
              \o Tail(t)
         ELSE s \o t

\* s[:k] and s[k:]
RECURSIVE Take(_, _)
Take(s, k) ==
    IF k = 0 \/ s = <<>> THEN <<>>
    ELSE IF Head(s).count <= k
         THEN <<Head(s)>> \o Take(Tail(s), k - Head(s).count)
         ELSE <<[byte |-> Head(s).byte, count |-> k]>>

RECURSIVE Drop(_, _)
Drop(s, k) ==
    IF k = 0 \/ s = <<>> THEN s
    ELSE IF Head(s).count <= k
         THEN Drop(Tail(s), k - Head(s).count)
         ELSE <<[byte |-> Head(s).byte, count |-> Head(s).count - k]>> \o Tail(s)

\* s[i], from 1
RECURSIVE ByteAt(_, _)
ByteAt(s, i) ==
    IF i <= Head(s).count THEN Head(s).byte ELSE ByteAt(Tail(s), i - Head(s).count)

\* struct.pack(">I", n)
Pack(n) ==
    Cat(Cat(Run(n \div 16777216, 1), Run((n \div 65536) % 256, 1)),
        Cat(Run((n \div 256) % 256, 1), Run(n % 256, 1)))

\* struct.unpack(">I", s)[0]
Unpack(s) ==
    ByteAt(s, 1) * 16777216 + ByteAt(s, 2) * 65536 + ByteAt(s, 3) * 256 + ByteAt(s, 4)

\* _send_data(): "self.writer.write(length + data)"
Frame(b) == Cat(Pack(Size(b)), b)

\* the same with ">="
TooLongFromMax(message_length) == message_length >= MAX_LENGTH

\* "if message_length > self.MAX_LENGTH"
TooLong(message_length) == message_length > MAX_LENGTH

\* the same returning after the first chunk
ReadExactFirstChunk(collected, n) == TRUE

\* _read_exact(): "while len(data) < size" is over
ReadExactDone(collected, n) == Size(collected) >= n

\* payloads the server frames: none, short ones, and the longest one allowed
\* with the next longer
Payloads ==
    {Run(7, n) : n \in {0, 1, 2, MAX_LENGTH, MAX_LENGTH + 1}} \cup {Run(0, 2)}

\* where a frame may be cut off when the server dies in the middle of it
Cuts == {2, 5}

\* the server writes a frame
ServerWrites(b) ==
    /\ conn = "open"
    /\ ~eof
    /\ Len(framed) < MaxFrames
    /\ framed' = Append(framed, b)
    /\ incoming' = Cat(incoming, Frame(b))
    /\ UNCHANGED <<eof, consumed, phase, size, data, chunks, delivered, split, sessionVars,
                   offFrame>>

\* the server writes the first bytes of a frame and the stream ends
ServerDies(b, cut) ==
    /\ conn = "open"
    /\ ~eof
    /\ Len(framed) < MaxFrames
    /\ cut < Size(Frame(b))
    /\ incoming' = Cat(incoming, Take(Frame(b), cut))
    /\ eof' = TRUE
    /\ UNCHANGED <<framed, consumed, phase, size, data, chunks, delivered, split, sessionVars,
                   offFrame>>

\* the server closes the stream between two frames
ServerCloses ==
    /\ conn = "open"
    /\ ~eof
    /\ eof' = TRUE
    /\ UNCHANGED <<incoming, framed, consumed, phase, size, data, chunks, delivered,
                   split, sessionVars, offFrame>>

\* what reader.read(n) may return of the bytes at hand: all it can, or less
Chunks(n) ==
    LET most == Min(n, Size(incoming))
    IN  IF chunks < MaxChunks
        THEN {k \in {1, 2, 3, most - 1, most} : 1 <= k /\ k <= most}
        ELSE {k \in {most} : 1 <= k}

\* _message_receiver() leaves its loop: "finally: self.is_connected = False"
LoopEnds(how) ==
    /\ recv_task' = "done"
    /\ protocol_is_connected' = FALSE
    /\ ended_by' = how

\* _message_receiver() once _read_exact(4) returned length_data: the length
\* is unpacked (struct.error, were it not of 4 bytes) and tested, and
\* _read_exact(message_length) begins; for a length of 0 it returns b""
\* without a read, and "if not message_data" breaks.
AfterLength(length_data) ==
    /\ UNCHANGED delivered
    /\ data' = <<>>
    /\ chunks' = 0
    /\ IF Size(length_data) # 4
       THEN LoopEnds("error") /\ UNCHANGED <<phase, size>>
       ELSE IF TooLong(Unpack(length_data))
            THEN LoopEnds("oversize") /\ UNCHANGED <<phase, size>>
            ELSE IF Unpack(length_data) = 0
                 THEN LoopEnds("no_data") /\ UNCHANGED <<phase, size>>
                 ELSE /\ phase' = "payload"
                      /\ size' = Unpack(length_data)
                      /\ UNCHANGED <<recv_task, protocol_is_connected, ended_by>>

\* _message_receiver() once _read_exact(message_length) returned
\* message_data: _process_message(message_data), and the loop reads the
\* next length
AfterPayload(message_data) ==
    /\ IF message_data = <<>>
       THEN LoopEnds("no_data") /\ UNCHANGED delivered
       ELSE /\ delivered' = Append(delivered, message_data)
            /\ UNCHANGED <<recv_task, protocol_is_connected, ended_by>>
    /\ phase' = "prefix"
    /\ size' = 4
    /\ data' = <<>>
    /\ chunks' = 0

\* one "await self.reader.read(size - len(data))" of _read_exact() returns k
\* bytes, and the receive task runs on to its next read
ReaderReads(k) ==
    /\ recv_task = "running"
    /\ conn = "open"
    /\ k \in Chunks(size - Size(data))
    /\ incoming' = Drop(incoming, k)
    /\ consumed' = Cat(consumed, Take(incoming, k))
    /\ LET collected == Cat(data, Take(incoming, k))
       IN  IF ReadExactDone(collected, size)
           THEN /\ IF phase = "prefix"
                   THEN AfterLength(collected)
                   ELSE AfterPayload(collected)
                /\ UNCHANGED split
           ELSE /\ data' = collected
                /\ chunks' = chunks + 1
                /\ split' = split \cup {phase}
                /\ UNCHANGED <<phase, size, delivered, recv_task,
                               protocol_is_connected, ended_by>>
    /\ UNCHANGED <<eof, framed, clientVars, callerVars, conn, send_queue, send_task, wire,
                   heartbeats, stopping, last_frame, disconnected_calls, offFrame>>

\* reader.read() returns b"" at the end of the stream: _read_exact() returns
\* b"" whatever it has collected, and the loop breaks
ReaderEof ==
    /\ recv_task = "running"
    /\ conn = "open"
    /\ incoming = <<>>
    /\ eof
    /\ LoopEnds("eof")
    /\ UNCHANGED <<incoming, eof, framed, consumed, phase, size, data, chunks, delivered,
                   split, clientVars, callerVars, conn, send_queue, send_task, wire,
                   heartbeats, stopping, last_frame, disconnected_calls, offFrame>>

\* _message_receiver() starts with _read_exact(4); nothing is on the stream
FrameInit ==
    /\ incoming = <<>>
    /\ eof = FALSE
    /\ framed = <<>>
    /\ consumed = <<>>
    /\ phase = "prefix"
    /\ size = 4
    /\ data = <<>>
    /\ chunks = 0
    /\ delivered = <<>>
    /\ split = {}

\* --------------------------------------------------------------- SpecWrite
\* The two tasks that write to the socket: the send task (the queue, and a
\* heartbeat when the line was idle) and the receive task (the heartbeat that
\* answers one of the server). Each write is followed by "await drain()",
\* where the other task may run. One connection, never closed by the client.
Tasks == {"send", "recv"}

\* the bytes of the envelope of a ProtoHeartbeatEvent, and of the messages
\* queued; which bytes they are does not matter to the framing
HeartbeatData == Cat(Run(8, 1), Cat(Run(51, 1), Cat(Run(18, 1), Run(0, 1))))
WriteData == {Run(1, 1), Run(2, 3)}

\* the same with the length and the data written one after the other, a
\* drain after each
SendDataTwoWrites(d) == <<Pack(Size(d)), d>>

\* _send_data(data): what it passes to writer.write(), call by call, each
\* call followed by "await self.writer.drain()": length + data, once
SendData(d) == <<Frame(d)>>

\* writer.write(b): the transport takes the bytes, unless it has lost the
\* connection, when it drops them
Wrote(b) == IF lost THEN socket ELSE Cat(socket, b)

\* task t calls _send_data(d) and runs to its first drain
BeginSendData(t, d) ==
    /\ written' = IF lost THEN written ELSE Append(written, d)
    /\ socket' = Wrote(Head(SendData(d)))
    /\ unwritten' = [unwritten EXCEPT ![t] = Tail(SendData(d))]
    /\ writer_pc' = [writer_pc EXCEPT ![t] = "drain"]

\* messages queued so far that were written or wait in the queue
Queued ==
    Len(send_queue) + Len(SelectSeq(written, LAMBDA d : d # HeartbeatData))

\* AsyncTcpProtocol.send(message) with instant false: serialized and queued
ProtocolSend(d) ==
    /\ protocol_is_connected
    /\ Queued < MaxQueued
    /\ send_queue' = Append(send_queue, d)
    /\ UNCHANGED <<clientVars, callerVars, conn, protocol_is_connected, send_task,
                   recv_task, wire, heartbeats, stopping, histVars, writeVars, offWrite>>

\* _message_sender() after its sleep: the loop condition, then a heartbeat if
\* nothing is queued (and the line was idle long enough: a turn that finds it
\* was not changes nothing), else the first item of a batch; up to the drain.
SenderBatch ==
    /\ send_task = "running"
    /\ writer_pc["send"] = "idle"
    /\ IF ~protocol_is_connected
       THEN /\ send_task' = "done"
            /\ UNCHANGED <<send_queue, heartbeats, socket, written, unwritten,
                           writer_pc, to_send>>
       ELSE IF send_queue = <<>>
            THEN /\ heartbeats < MaxBeats
                 /\ heartbeats' = heartbeats + 1
                 /\ BeginSendData("send", HeartbeatData)
                 /\ UNCHANGED <<send_queue, send_task, to_send>>
            ELSE /\ send_queue' = Tail(send_queue)
                 /\ to_send' = messages_to_send(send_queue) - 1
                 /\ BeginSendData("send", Head(send_queue))
                 /\ UNCHANGED <<send_task, heartbeats>>
    /\ UNCHANGED <<clientVars, callerVars, conn, protocol_is_connected, recv_task,
                   wire, stopping, histVars, lost, offWrite>>

\* "await self.writer.drain()" of task t returns: _send_data() writes what it
\* has left to write, or returns. The send task then goes on with its batch
\* ("if not self._send_queue: break") or to its sleep; the receive task
\* goes back to its loop condition and its next read.
Drained(t) ==
    /\ writer_pc[t] = "drain"
    /\ ~lost
    /\ IF unwritten[t] # <<>>
       THEN /\ socket' = Wrote(Head(unwritten[t]))
            /\ unwritten' = [unwritten EXCEPT ![t] = Tail(unwritten[t])]
            /\ UNCHANGED <<written, writer_pc, to_send, send_queue, recv_task, ended_by>>
       ELSE IF t = "send" /\ to_send > 0 /\ send_queue # <<>>
            THEN /\ send_queue' = Tail(send_queue)
                 /\ to_send' = to_send - 1
                 /\ BeginSendData("send", Head(send_queue))
                 /\ UNCHANGED <<recv_task, ended_by>>
            ELSE /\ writer_pc' = [writer_pc EXCEPT ![t] = "idle"]
                 /\ to_send' = IF t = "send" THEN 0 ELSE to_send
                 /\ IF t = "recv" /\ ~protocol_is_connected
                    THEN recv_task' = "done" /\ ended_by' = "closed"
                    ELSE UNCHANGED <<recv_task, ended_by>>
                 /\ UNCHANGED <<socket, written, unwritten, send_queue>>
    /\ UNCHANGED <<clientVars, callerVars, conn, protocol_is_connected, send_task, wire,
                   heartbeats, stopping, last_frame, disconnected_calls, lost, offWrite>>

\* the receive task reads a heartbeat of the server: _process_message() calls
\* heartbeat(), which writes the answer at once; up to the drain
HeartbeatReply ==
    /\ recv_task = "running"
    /\ conn = "open"
    /\ protocol_is_connected
    /\ ~lost
    /\ writer_pc["recv"] = "idle"
    /\ heartbeats < MaxBeats
    /\ heartbeats' = heartbeats + 1
    /\ last_frame' = [kind |-> "heartbeat", id |-> NoId, raises |-> FALSE]
    /\ BeginSendData("recv", HeartbeatData)
    /\ UNCHANGED <<clientVars, callerVars, conn, protocol_is_connected, send_queue,
                   send_task, recv_task, wire, stopping, ended_by, disconnected_calls,
                   to_send, lost, offWrite>>

\* the transport loses the connection (reset by the peer, a failed write):
\* from now on a write is dropped, drain() raises ConnectionResetError and a
\* read raises. The tasks waiting at this moment are woken, a task in a read
\* before a task in a drain.
ConnectionLost ==
    /\ conn = "open"
    /\ ~lost
    /\ lost' = TRUE
    /\ writer_pc' = [t \in Tasks |-> IF writer_pc[t] = "drain" THEN "woken"
                                     ELSE writer_pc[t]]
    /\ UNCHANGED <<sessionVars, socket, written, unwritten, to_send, offWrite>>

\* the receive task waits in a read
InRead == recv_task = "running" /\ writer_pc["recv"] = "idle"

\* drain() raises in task t. In the send task the exception leaves the loop:
\* "except Exception" calls _handle_error and the task is over; nothing
\* there touches is_connected. In the receive task "except Exception" of
\* _process_message takes it and the loop goes on to its next read.
DrainRaises(t) ==
    /\ writer_pc[t] \in {"drain", "woken"}
    /\ lost
    /\ (t = "send" /\ writer_pc[t] = "woken") => ~InRead
    /\ writer_pc' = [writer_pc EXCEPT ![t] = "idle"]
    /\ unwritten' = [unwritten EXCEPT ![t] = <<>>]
    /\ IF t = "send"
       THEN send_task' = "done" /\ to_send' = 0
       ELSE UNCHANGED <<send_task, to_send>>
    /\ UNCHANGED <<clientVars, callerVars, conn, protocol_is_connected, send_queue,
                   recv_task, wire, heartbeats, stopping, histVars, socket, written,
                   lost, offWrite>>

\* the read the receive task waits in raises: "finally" clears is_connected
ReceiverLost ==
    /\ lost
    /\ writer_pc["recv"] = "idle"
    /\ ReceiverEnds("error")

\* nothing written, both tasks outside _send_data(), the connection sound
WriteInit ==
    /\ socket = <<>>
    /\ written = <<>>
    /\ unwritten = [t \in Tasks |-> <<>>]
    /\ writer_pc = [t \in Tasks |-> "idle"]
    /\ to_send = 0
    /\ lost = FALSE

\* ------------------------------------------------------- specifications
SessionInit ==
    /\ running = FALSE
    /\ protocol = "none"
    /\ client_is_connected = FALSE
    /\ response_futures = EmptyMap
    /\ next_uuid = 0
    /\ pc = [c \in Callers |-> "idle"]
    /\ msg_id = [c \in Callers |-> NoId]
    /\ future = [c \in Callers |-> "none"]
    /\ response = [c \in Callers |-> NoId]
    /\ conn = "none"
    /\ protocol_is_connected = FALSE
    /\ send_queue = <<>>
    /\ send_task = "none"
    /\ recv_task = "none"
    /\ wire = <<>>
    /\ heartbeats = 0
    /\ stopping = FALSE
    /\ last_frame = NoFrame
    /\ ended_by = "none"
    /\ disconnected_calls = <<>>

\* a protocol just connected: nothing queued, nothing sent yet
SchedInit ==
    /\ now = 0
    /\ last_send_time = Never
    /\ queue = <<>>
    /\ writes = [i \in 1..Second |-> 0]
    /\ last_write = Never
    /\ beats = 0
    /\ enqueued = 0
    /\ instants = 0
    /\ batch = <<>>

\* nothing read yet, no callback running
RecvInit ==
    /\ inbox = <<>>
    /\ arrived = 0
    /\ recv_pc = "reading"
    /\ callback_log = <<>>

\* CTraderAsyncConnector.__init__: no account, nothing authorized, nothing sent
ConnectorInit ==
    /\ current_account_id = 0
    /\ auth_pending = 0
    /\ authorized = {}
    /\ ops = <<>>
    /\ app_auth_id = NoId

\* no send() called yet, no callback waiting in one
WaitInit ==
    /\ send_call = [c \in Callers |-> NoCall]
    /\ callback_waits = 0

\* no protocol object, no callback of the user set
CallbacksInit ==
    /\ on_error = "none"
    /\ raising = {}
    /\ error_calls = 0

Init ==
    /\ SessionInit /\ SchedInit /\ RecvInit /\ ConnectorInit /\ CallbacksInit
    /\ TokenInit /\ FrameInit /\ WriteInit /\ WaitInit
    /\ last_noop = "none"

Next ==
    \/ StartService
    \/ StartServiceRunning
    \/ ConnectionMade
    \/ ConnectionFailed
    \/ StopService
    \/ StopServiceNotRunning
    \/ StopServiceEnds
    \/ \E c \in Callers, given \in UserIds \cup {NoId} : ClientSend(c, given)
    \/ \E c \in Callers : Timeout(c)
    \/ \E c \in Callers : CallerResume(c)
    \/ \E c \in Callers : CallerCancelled(c)
    \/ \E f \in Frames : ReceiveFrame(f)
    \/ \E how \in {"eof", "error", "oversize", "closed"} : ReceiverEnds(how)
    \/ MessageSender

Spec == Init /\ [][Next]_vars

NextSched ==
    \/ SenderTurn
    \/ \E canceled \in BOOLEAN : Enqueue(canceled)
    \/ InstantSend

SpecSched == Init /\ [][NextSched]_vars

NextRecv ==
    \/ StartService
    \/ ConnectionMade
    \/ StopService
    \/ \E c \in Callers, given \in UserIds \cup {NoId} : ClientSend(c, given)
    \/ MessageSender
    \/ \E f \in RecvFrames : ServerSends(f)
    \/ \E suspends \in BOOLEAN : ReceiverReads(suspends)
    \/ CallbackReturns

SpecRecv == Init /\ [][NextRecv]_vars

NextAccount ==
    \/ \E a \in Accounts : SetAccountBegins(a)
    \/ \E outcome \in {"authorized", "refused", "raised"} : SetAccountEnds(outcome)
    \/ \E ok \in BOOLEAN : LogoutAccount(ok)
    \/ \E op \in AccountOps : AccountOp(op)

SpecAccount == Init /\ [][NextAccount]_vars

NextAuth ==
    \/ StartService
    \/ ConnectorConnectionMade
    \/ ConnectionFailed
    \/ \E c \in Callers, given \in UserIds \cup {NoId} : ClientSend(c, given)
    \/ \E c \in Callers : Timeout(c)
    \/ \E c \in Callers : CallerResume(c)
    \/ \E f \in Frames : ReceiveFrame(f)
    \/ MessageSender

SpecAuth == Init /\ [][NextAuth]_vars

NextCallbacks ==
    \/ StartService
    \/ ConnectionMade
    \/ ConnectionFailed
    \/ StopService
    \/ StopServiceEnds
    \/ \E how \in {"none", "ok", "raises"} : SetErrorCallback(how)
    \/ \E name \in UserCallbacks, raises \in BOOLEAN : SetCallback(name, raises)
    \/ \E c \in Callers : ClientSend(c, NoId)
    \/ \E f \in ReceivedFrames : ReceiveFrame(f)
    \/ MessageSender

SpecCallbacks == Init /\ [][NextCallbacks]_vars

NextToken ==
    \/ Tick
    \/ \E d \in LegacyFiles \cup {Snake(x) : x \in LegacyFiles} : ExternalFile(d)
    \/ \E writable \in BOOLEAN : LoadTokens(writable)
    \/ GetToken
    \/ RefreshToken
    \/ EnsureTokenValid
    \/ \E result \in Responses(token_requests), writable \in BOOLEAN :
          TokenResponse(result, writable)

SpecToken == Init /\ [][NextToken]_vars

NextFrame ==
    \/ StartService
    \/ ConnectionMade
    \/ \E b \in Payloads : ServerWrites(b)
    \/ \E b \in Payloads, cut \in Cuts : ServerDies(b, cut)
    \/ ServerCloses
    \/ \E k \in Chunks(size - Size(data)) : ReaderReads(k)
    \/ ReaderEof

SpecFrame == Init /\ [][NextFrame]_vars

NextSerialize ==
    \/ StartService
    \/ ConnectionMade
    \/ \E c \in Callers, given \in UserIds \cup {NoId}, form \in Forms,
          carried \in UserIds \cup {NoId} : SendAny(c, given, form, carried)
    \/ \E c \in Callers : Timeout(c)
    \/ \E c \in Callers : CallerResume(c)
    \/ \E f \in Frames : ReceiveFrame(f)
    \/ MessageSender

SpecSerialize == Init /\ [][NextSerialize]_vars

NextTimeout ==
    \/ StartService
    \/ ConnectionMade
    \/ \E c \in Callers, response_timeout \in ResponseTimeouts :
          TimedSend(c, response_timeout)
    \/ \E c \in Callers : TimeoutDue(c)
    \/ \E c \in Callers : CallerResume(c)
    \/ \E f \in Frames : ReceiveFrame(f)
    \/ MessageSender
    \/ TimePasses

SpecTimeout == Init /\ [][NextTimeout]_vars

NextReentrant ==
    \/ StartService
    \/ ConnectionMade
    \/ \E c \in Callers : ClientSend(c, NoId)
    \/ \E c \in Callers : CallbackSends(c)
    \/ \E c \in Callers : Timeout(c)
    \/ \E c \in Callers : CallerResume(c)
    \/ MessageSender
    \/ \E f \in RecvFrames : ServerSends(f)
    \/ \E suspends \in BOOLEAN : ReceiverReads(suspends)
    \/ CallbackEnds

SpecReentrant == Init /\ [][NextReentrant]_vars

NextWrite ==
    \/ StartService
    \/ ConnectionMade
    \/ \E d \in WriteData : ProtocolSend(d)
    \/ SenderBatch
    \/ \E t \in Tasks : Drained(t)
    \/ HeartbeatReply
    \/ ConnectionLost
    \/ \E t \in Tasks : DrainRaises(t)
    \/ ReceiverLost

SpecWrite == Init /\ [][NextWrite]_vars

\* ================================================================ claims
\* ---------------------------------------------------------------- Spec

\* C1: when a message arrives whose clientMsgId is a key of the pending map
\* and the send() registered there is still waiting, the entry is removed and
\* that send() gets this very envelope; and every envelope a send() returns
\* carries the clientMsgId of its own request.
C1_ResponseCompletesItsWaiter ==
    /\ [][\A f \in Frames :
            (/\ f.kind = "message"
             /\ f.id \in DOMAIN response_futures
             /\ future[response_futures[f.id]] = "pending"
             /\ ReceiveFrame(f))
            => (/\ f.id \notin DOMAIN response_futures'
                /\ future'[response_futures[f.id]] = "result"
                /\ response'[response_futures[f.id]] = f.id)]_vars
    /\ [](\A c \in Callers : pc[c] = "returned" => response[c] = msg_id[c])

\* C2: in every state where the client is not connected (is_connected false
\* or no protocol object) a call of send() raises ConnectionError, leaves the
\* pending map as it was and puts nothing on the send queue or the wire.
C2_SendRefusedWhenNotConnected ==
    [][\A c \in Callers :
        (/\ ~client_is_connected \/ protocol = "none"
         /\ pc[c] = "idle"
         /\ pc'[c] # "idle")
        => (/\ pc'[c] = "ConnectionError"
            /\ response_futures' = response_futures
            /\ send_queue' = send_queue
            /\ wire' = wire)]_vars

\* C2 witness: a send() was refused at the check, before any id was chosen,
\* while another request of the same client is still registered and queued.
C2_Witness ==
    \E c, d \in Callers :
        /\ pc[c] = "ConnectionError"
        /\ msg_id[c] = NoId
        /\ pc[d] = "waiting"

\* C3: when a send() times out, its own id is removed from the pending map
\* and only its own caller fails; every entry of another request stays in the
\* map, and no other caller or Future changes.
C3_TimeoutRemovesOnlyOwnEntry ==
    [][\A c \in Callers :
        (pc[c] = "waiting" /\ future[c] = "timed_out" /\ pc'[c] # "waiting")
        => (/\ pc'[c] = "TimeoutError"
            /\ msg_id[c] \notin DOMAIN response_futures'
            /\ \A k \in DOMAIN response_futures :
                 response_futures[k] # c
                 => (k \in DOMAIN response_futures'
                     /\ response_futures'[k] = response_futures[k])
            /\ \A d \in Callers \ {c} : pc'[d] = pc[d] /\ future'[d] = future[d])]_vars

\* the receive task ended because the connection was lost
Lost(how) == how \in {"eof", "error", "oversize"}

\* C4: when the connection is lost (server EOF, read error, oversized frame)
\* every send() waiting at that moment fails with the connection-lost
\* ConnectionError, never with a timeout, and the pending map becomes empty.
C4_LossFailsEveryWaiter ==
    [][/\ (ended_by = "none" /\ Lost(ended_by'))
          => (/\ response_futures' = EmptyMap
              /\ \A c \in Waiting : future'[c] = "connection_lost")
       /\ \A c \in Waiting : Lost(ended_by) => future'[c] # "timed_out"]_vars

\* a session that was connected is over: the receive task has ended and no
\* disconnect() is still under way
SessionOver == conn \in {"open", "closed"} /\ recv_task = "done" /\ ~stopping

\* C5: however a connected session ends (server EOF, transport error,
\* oversized frame, disconnect()/stop_service()), the on-disconnected
\* callback has been invoked exactly once, with a reason.
C5_DisconnectedCalledOnce ==
    SessionOver => Len(disconnected_calls) = 1

\* C6: stop_service() with requests pending cancels the send task, and every
\* pending send() fails with the connection-lost ConnectionError: no pending
\* Future is cancelled, no send() ends in CancelledError. (A send() whose own
\* task its caller cancels is not counted.)
C6_StopFailsWaitersWithConnectionError ==
    [][/\ (running /\ ~running' /\ send_task = "running") => send_task' = "cancelled"
       /\ \A c \in Callers :
            /\ (future[c] = "pending" /\ pc'[c] # "cancelled_by_caller")
               => future'[c] \in {"pending", "result", "timed_out", "connection_lost"}
            /\ pc'[c] # "CancelledError"]_vars

\* C7: send() invocations in flight at the same time have pairwise distinct
\* clientMsgId values, and an arriving response completes exactly one waiter
\* when its id is pending and none otherwise.
C7_DistinctIdsOneWaiter ==
    /\ [](\A c, d \in Callers :
            (c # d /\ pc[c] = "waiting" /\ pc[d] = "waiting") => msg_id[c] # msg_id[d])
    /\ [][\A f \in Frames :
            (f.kind = "message" /\ ReceiveFrame(f))
            => Cardinality({c \in Callers : future'[c] # future[c]})
               = (IF /\ f.id \in DOMAIN response_futures
                     /\ future[response_futures[f.id]] = "pending"
                  THEN 1 ELSE 0)]_vars

\* C14: the response to a request whose send() is still waiting completes
\* that waiter in the step in which it is received, and no other waiter in
\* that step; so waiters are completed in the order their responses arrive,
\* whatever order the requests were sent in, and a waiter whose response has
\* arrived is not left to time out.
C14_CompletionInArrivalOrder ==
    [][\A f \in Frames, c \in Callers :
        (/\ f.kind = "message"
         /\ pc[c] = "waiting"
         /\ future[c] = "pending"
         /\ f.id = msg_id[c]
         /\ ReceiveFrame(f))
        => (/\ future'[c] = "result"
            /\ \A d \in Callers \ {c} : future'[d] = future[d])]_vars

\* the session is Disconnected: the connection attempt failed, the writer was
\* closed, or the receive task ended on an open connection; no disconnect()
\* is under way
Disconnected ==
    /\ ~stopping
    /\ conn \in {"failed", "closed"} \/ (conn = "open" /\ recv_task = "done")

\* a call of start_service()
StartServiceCalled == StartService \/ StartServiceRunning

\* C17: once the session is Disconnected, by whatever path, a call of
\* start_service() makes a new protocol object and opens a new connection.
C17_RestartAfterDisconnected ==
    [][(Disconnected /\ StartServiceCalled)
       => (protocol' = "obj" /\ conn' = "connecting")]_vars

\* C18: start_service() on a running client changes nothing of the session
\* (no new protocol object, no connect()); on a client that is not running it
\* sets the running flag, makes the protocol object and starts one connect().
C18_StartServiceOnce ==
    [][StartServiceCalled
       => IF running
          THEN UNCHANGED sessionVars
          ELSE running' /\ protocol' = "obj" /\ conn' = "connecting"]_vars

\* C18 witness: start_service() was called on a running, connected client and
\* returned at once
C18_Witness ==
    /\ last_noop = "start_service"
    /\ running
    /\ conn = "open"
    /\ protocol = "obj"

\* stop_service() returns in this step: at once when there is no send task
\* to await, else when disconnect() has run on
StopServiceReturns == (StopService /\ ~stopping') \/ StopServiceEnds

C20_CancelRemovesEntry ==
    [][\A c \in Callers :
        (pc[c] = "waiting" /\ pc'[c] = "cancelled_by_caller")
        => msg_id[c] \notin DOMAIN response_futures']_vars

\* requests written to the socket under the id of frame f
WrittenWith(f) == {i \in DOMAIN wire : wire[i].id = f.id}

\* frame f answers a request whose send() has ended in TimeoutError: the
\* only request written under its id is that of a caller that timed out
LateResponse(f) ==
    /\ f.kind = "message"
    /\ f.id # NoId
    /\ Cardinality(WrittenWith(f)) = 1
    /\ \E c \in Callers : pc[c] = "TimeoutError" /\ msg_id[c] = f.id

\* C21: a response that arrives after its request has timed out completes no
\* waiter and leaves the pending map and every in-flight request as they were.
C21_LateResponseIgnored ==
    [][\A f \in Frames :
        (LateResponse(f) /\ ReceiveFrame(f))
        => UNCHANGED <<response_futures, future, response>>]_vars

\* ----------------------------------------------------------- SpecSched
\* C8: with the send task running at messages_per_second = R, however many
\* messages are queued at once, no window of one second (R consecutive turns
\* of the task) holds more than R frames written from the queue.
C8_RateLimit == Sum(writes) <= messages_per_second

\* time since a frame was last written (since the connection was made, if
\* none was), at clock t
SinceWrite(t) == IF last_write = Never THEN t ELSE t - last_write

\* C9: while connected, once heartbeatIdle (20 s) has passed with no frame
\* written the send task emits a heartbeat within one turn, so the time
\* without a write never exceeds 20 s and one turn, whatever was queued,
\* cancelled or sent at once before.
C9_HeartbeatWithinOneTurn == SinceWrite(now) <= HeartbeatIdle * Second + 1

\* a session made at clock 0 and left alone for heartbeatIdle + 2 s
IdleRun == now = (HeartbeatIdle + 2) * Second /\ enqueued = 0 /\ instants = 0

\* C10 as claimed: the send task emits a heartbeat only when the queue is
\* empty and more than heartbeatIdle (20 s) has passed without a write; a
\* fresh session left idle for heartbeatIdle + 2 s has emitted exactly one.
C10_HeartbeatOnlyAfterIdle ==
    [][/\ beats' = beats + 1
          => (queue = <<>> /\ SinceWrite(now') > HeartbeatIdle * Second)
       /\ IdleRun' => beats' = 1]_vars

\* C10 amended: the send task emits a heartbeat only when the queue is empty
\* and either nothing was sent yet on the connection (_last_send_time is
\* None) or more than 20 s have passed since _last_send_time; a fresh session
\* left idle for heartbeatIdle + 2 s has emitted exactly two heartbeats.
C10_HeartbeatWhenDue ==
    [][/\ beats' = beats + 1
          => (/\ queue = <<>>
              /\ last_send_time = Never \/ now' - last_send_time > HeartbeatIdle * Second)
       /\ IdleRun' => beats' = 2]_vars

\* C10 witness: the idle session at heartbeatIdle + 2 s, both heartbeats out,
\* the second one more than 20 s after the first
C10_Witness == IdleRun /\ beats = 2 /\ last_send_time > HeartbeatIdle * Second

\* C13: while connected, what the send task writes from the queue in a turn
\* is, in queue order and once each, exactly the items it dequeued in that
\* turn whose is_canceled() was false; the items dequeued are the oldest ones,
\* so over the turns the frames written are the queued items in the order
\* they were queued, without the cancelled ones.
C13_QueueOrderKept ==
    [][(now' = now + 1)
       => LET n == messages_to_send(queue)
              first == enqueued - Len(queue)
          IN  /\ queue' = SubSeq(queue, n + 1, Len(queue))
              /\ \A k \in DOMAIN batch' :
                    /\ batch'[k] \in (first + 1)..(first + n)
                    /\ ~queue[batch'[k] - first]
              /\ \A k \in 1..(Len(batch') - 1) : batch'[k] < batch'[k + 1]
              /\ \A i \in 1..n : ~queue[i] => \E k \in DOMAIN batch' : batch'[k] = first + i
              /\ Len(batch') = writes'[1]]_vars

\* C13 witness: the first item queued was cancelled and skipped in its own
\* turn; the second and third were written together, in that order
C13_Witness == batch = <<2, 3>> /\ writes[2] = 0 /\ now = 2

\* ------------------------------------------------------------- SpecRecv
\* the receive task takes the frame at the head of the stream in this step
Reads == inbox # <<>> /\ inbox' = Tail(inbox)

\* C11 as claimed: for every heartbeat received from the server the client
\* writes exactly one heartbeat of its own in the same step, with the send
\* queue and the frames written from it unchanged, and the on-message
\* callback is not called.
C11_HeartbeatAnswered ==
    [][(Reads /\ Head(inbox).kind = "heartbeat")
       => (/\ heartbeats' = heartbeats + 1
           /\ send_queue' = send_queue
           /\ wire' = wire
           /\ callback_log' = callback_log)]_vars

\* C11 amended: a heartbeat received while the protocol is connected
\* (is_connected true) is answered with exactly one heartbeat in the same step;
\* one received after disconnect() has cleared is_connected is answered
\* with none. Either way the send queue and the frames written from it are
\* unchanged and the on-message callback is not called.
C11_HeartbeatAnsweredWhileConnected ==
    [][(Reads /\ Head(inbox).kind = "heartbeat")
       => (/\ heartbeats' = (IF protocol_is_connected THEN heartbeats + 1 ELSE heartbeats)
           /\ send_queue' = send_queue
           /\ wire' = wire
           /\ callback_log' = callback_log)]_vars

\* C11 witness: the server's heartbeat was answered, the only heartbeat
\* written so far, while a request still waits in the send queue unwritten
C11_Witness ==
    /\ last_frame.kind = "heartbeat"
    /\ protocol_is_connected
    /\ heartbeats = 1
    /\ send_queue # <<>>
    /\ wire = <<>>

\* C12: the on-message callback is called for the messages in wire order,
\* and each call has returned before the next one is made: the log is
\* call, return, call, return, ... with rising frame ordinals.
C12_CallbacksInOrderNoOverlap ==
    \A i \in DOMAIN callback_log :
        /\ (i % 2 = 1) => callback_log[i].ev = "call"
        /\ (i % 2 = 0) => (/\ callback_log[i].ev = "return"
                           /\ callback_log[i].n = callback_log[i - 1].n)
        /\ (i % 2 = 1 /\ i > 2) => callback_log[i].n > callback_log[i - 2].n

\* C12 witness: the callback of one message is suspended while the next
\* message already waits in the stream, and an earlier callback has returned
C12_Witness ==
    /\ recv_pc = "callback"
    /\ Len(callback_log) = 3
    /\ inbox # <<>>
    /\ Head(inbox).kind = "message"

\* ---------------------------------------------------------- SpecAccount
\* C15: every account-scoped call made while account authentication has not
\* succeeded for the current account (none set, auth refused or raised, after
\* logout) ends in the connector's account error and sends nothing.
C15_AccountOpsNeedAuthentication ==
    \A i \in DOMAIN ops : ~ops[i].authenticated => ops[i].outcome = "ValueError"

\* ------------------------------------------------------------- SpecAuth
\* the requests handed to the protocol on this connection, oldest first
Requests == wire \o send_queue

\* C16: on the connection made by connect() the application-auth request is
\* the first request queued and so the first written: no request of another
\* caller is written before it.
C16_AppAuthFirst ==
    /\ Requests # <<>> => (app_auth_id # NoId /\ Requests[1] = Request(app_auth_id))
    /\ \A i \in DOMAIN wire : i > 1 => wire[i].id # app_auth_id

\* C16 witness: the app-auth request was written first and a request of a
\* concurrent caller after it
C16_Witness ==
    /\ Len(wire) >= 2
    /\ wire[1].id = app_auth_id
    /\ \E c \in Callers : pc[c] = "waiting" /\ wire[2].id = msg_id[c]

\* ----------------------------------------------------------- SpecCallbacks
\* C22: a received frame whose bytes do not decode is reported as an error
\* and skipped: is_connected stays true, the pending requests are untouched
\* and the receive task goes on to the next frame.
C22_UndecodableSkipped ==
    [][(protocol_is_connected /\ ReceiveFrame(Undecodable))
       => (/\ protocol_is_connected'
           /\ recv_task' = "running"
           /\ error_calls' = ErrorCalls(1)
           /\ UNCHANGED <<response_futures, future, response>>)]_vars

\* the same of a protocol whose on_error callback does not raise
C22_UndecodableSkippedQuietOnError ==
    [][(protocol_is_connected /\ on_error # "raises" /\ ReceiveFrame(Undecodable))
       => (/\ protocol_is_connected'
           /\ recv_task' = "running"
           /\ error_calls' = ErrorCalls(1)
           /\ UNCHANGED <<response_futures, future, response>>)]_vars

\* a frame in whose processing a callback of the user raises while the
\* protocol is connected: on-message on f, or on_error on the error of f
RaisesOn(f) ==
    /\ protocol_is_connected
    /\ f.raises \/ (ProcessError(f) /\ on_error = "raises")

\* C23: an exception raised by a callback of the user (on-connected,
\* on-disconnected, on-message, on-error) is caught: the receive task and
\* the send task run on and is_connected stays true; disconnect(), where
\* on-disconnected is called, returns to stop_service().
C23_CallbackExceptionCaught ==
    [][/\ (ConnectionMade /\ "on_connected" \in raising)
          => (recv_task' = "running" /\ send_task' = "running"
              /\ protocol_is_connected')
       /\ \A f \in ReceivedFrames :
            (RaisesOn(f) /\ ReceiveFrame(f))
            => (recv_task' = "running" /\ send_task' = send_task
                /\ protocol_is_connected')
       /\ (StopServiceReturns /\ "on_disconnected" \in raising)
          => protocol' = "none"]_vars

\* the same of a protocol whose on_error callback does not raise
C23_CallbackExceptionCaughtQuietOnError ==
    [][on_error # "raises"
       => /\ (ConnectionMade /\ "on_connected" \in raising)
             => (recv_task' = "running" /\ send_task' = "running"
                 /\ protocol_is_connected')
          /\ \A f \in ReceivedFrames :
               (RaisesOn(f) /\ ReceiveFrame(f))
               => (recv_task' = "running" /\ send_task' = send_task
                   /\ protocol_is_connected')
          /\ (StopServiceReturns /\ "on_disconnected" \in raising)
             => protocol' = "none"]_vars

\* --------------------------------------------------------------- SpecToken
\* the token tok is expiring at t: t >= issued_at + expires_in - 300 s
Expiring(tok, t) == t >= tok.issued_at + tok.expires_in - RefreshMargin

\* C24: ensure_token_valid() on a token sends a refresh request if and only
\* if now >= issued_at + expires_in - 300 s; when it sends none, the token in
\* memory and the token file stay as they are.
C24_RefreshIffExpiring ==
    [][(EnsureTokenValid /\ token # NoToken)
       => /\ (token_requests' = token_requests + 1) <=> Expiring(token, wall_clock)
          /\ ~Expiring(token, wall_clock) => UNCHANGED <<token, token_file>>]_vars

\* get_token() or refresh_token() returns a token in this step
Acquired(result, writable) ==
    TokenResponse(result, writable) /\ TokenOutcome(result) = Returned

\* C25: after every successful get_token() or refresh_token() the token in
\* memory and the token file both hold the newly issued token, with
\* issued_at the time of the acquisition.
C25_AcquiredTokenStoredAndSaved ==
    [][\A result \in Responses(token_requests), writable \in BOOLEAN :
        Acquired(result, writable)
        => (/\ token'.access_token = result.access_token
            /\ token'.refresh_token = result.refresh_token
            /\ token'.expires_in = result.expires_in
            /\ token'.issued_at = wall_clock
            /\ token_file' = token')]_vars

\* C26: loading a token file with the old camelCase keys leaves the same
\* token in memory as loading the file with the same values under the
\* snake_case keys, and the old file is rewritten with snake_case keys.
C26_LegacyLoadsLikeSnake ==
    [][\A writable \in BOOLEAN :
        (token_file \in LegacyFiles /\ LoadTokens(writable))
        => (/\ token' = Loaded(Snake(token_file))
            /\ token_file' = token')]_vars

\* the same of the loads whose file can be written
C26_LegacyLoadsLikeSnakeWritable ==
    [][(token_file \in LegacyFiles /\ LoadTokens(TRUE))
        => (/\ token' = Loaded(Snake(token_file))
            /\ token_file' = token')]_vars

\* the same of the old files that carry issued_at and can be written
C26_LegacyWithIssuedAtLoadsLikeSnake ==
    [][(/\ token_file \in LegacyFiles
        /\ "issued_at" \in DOMAIN token_file
        /\ LoadTokens(TRUE))
        => (/\ token' = Loaded(Snake(token_file))
            /\ token_file' = token')]_vars

\* the response carries an error code that is not null
HasErrorCode(result) == "errorCode" \in DOMAIN result /\ result["errorCode"] # Null

\* C27: get_token() and refresh_token() raise an error with the server's
\* description when the response has a non-null errorCode, and otherwise a
\* missing-access-token error when it has no access_token; either way the
\* token in memory and the token file stay as they were.
C27_TokenErrorsLeaveTokenAlone ==
    [][\A result \in Responses(token_requests), writable \in BOOLEAN :
        TokenResponse(result, writable)
        => /\ HasErrorCode(result)
              => (/\ token_call'.error = "ValueError"
                  /\ "description" \in DOMAIN result
                     => token_call'.message = result["description"]
                  /\ UNCHANGED <<token, token_file>>)
           /\ (~HasErrorCode(result) /\ "access_token" \notin DOMAIN result)
              => (/\ token_call'.error = "ValueError"
                  /\ token_call'.message = "no access_token"
                  /\ UNCHANGED <<token, token_file>>)]_vars

\* C27 witness: a refresh of a stored token was refused with a description,
\* and the token is still in memory and in the file
C27_Witness ==
    /\ token_call = [op |-> "refresh_token", error |-> "ValueError",
                     message |-> "description"]
    /\ token # NoToken
    /\ token_file = token

\* --------------------------------------------------------------- SpecFrame
\* s is the beginning of t
IsPrefix(s, t) == Len(s) <= Len(t) /\ s = SubSeq(t, 1, Len(s))

\* no payload framed so far is longer than MAX_LENGTH
AllWithinMax == \A i \in DOMAIN framed : Size(framed[i]) <= MAX_LENGTH

\* every byte written has been read
AllRead == incoming = <<>>

\* C28: for every payload b with 0 <= |b| <= MAX_LENGTH, the frame written
\* for b (4-byte big-endian length, then b) is delivered by the receive loop
\* as exactly b, and the loop goes on to the next frame.
C28_FrameRoundTrip ==
    AllWithinMax
    => /\ IsPrefix(delivered, framed)
       /\ AllRead => delivered = framed
       /\ (AllRead /\ ~eof) => (recv_task # "done" /\ phase = "prefix")

\* the same of payloads that are not empty
C28_FrameRoundTripNotEmpty ==
    (AllWithinMax /\ \A i \in DOMAIN framed : framed[i] # <<>>)
    => /\ IsPrefix(delivered, framed)
       /\ AllRead => delivered = framed
       /\ (AllRead /\ ~eof) => (recv_task # "done" /\ phase = "prefix")

\* the length prefix that the read of k bytes completes, or -1 if it
\* completes none
PrefixRead(k) ==
    IF phase = "prefix" /\ Size(data) + k = 4
    THEN Unpack(Cat(data, Take(incoming, k)))
    ELSE -1

\* C29: a length prefix above MAX_LENGTH (15,000,000) ends the connection
\* and nothing of that frame's payload is read or dispatched; a frame whose
\* length is MAX_LENGTH is accepted and dispatched.
C29_OversizeEndsMaxAccepted ==
    [][/\ \A k \in Chunks(size - Size(data)) :
            ReaderReads(k)
            => /\ PrefixRead(k) > MAX_LENGTH
                  => (/\ recv_task' = "done"
                      /\ ~protocol_is_connected'
                      /\ delivered' = delivered)
               /\ PrefixRead(k) = MAX_LENGTH
                  => (/\ recv_task' = "running"
                      /\ protocol_is_connected'
                      /\ phase' = "payload"
                      /\ size' = MAX_LENGTH)
               /\ (phase = "payload" /\ size = MAX_LENGTH
                   /\ Size(data) + k = MAX_LENGTH)
                  => (/\ Len(delivered') = Len(delivered) + 1
                      /\ delivered'[Len(delivered')] = framed[Len(delivered')]
                      /\ Size(delivered'[Len(delivered')]) = MAX_LENGTH)
       /\ ended_by = "oversize" => UNCHANGED <<consumed, delivered>>]_vars

\* C29 witness: a frame of MAX_LENGTH bytes was delivered, then a prefix
\* above MAX_LENGTH ended the loop with the payload unread
C29_Witness ==
    /\ Len(delivered) = 1
    /\ Size(delivered[1]) = MAX_LENGTH
    /\ ended_by = "oversize"
    /\ ~protocol_is_connected
    /\ Size(incoming) = MAX_LENGTH + 1

\* the frames of a byte string, read with no read ever short
RECURSIVE FramesOf(_)
FramesOf(s) ==
    IF Size(s) < 4 THEN <<>>
    ELSE LET message_length == Unpack(Take(s, 4))
             rest == Drop(s, 4)
         IN  IF \/ TooLong(message_length)
                \/ message_length = 0
                \/ Size(rest) < message_length
             THEN <<>>
             ELSE <<Take(rest, message_length)>> \o FramesOf(Drop(rest, message_length))

\* C30: the frames delivered depend on the bytes read only, not on how the
\* reads split them, a split inside the 4-byte length prefix included: they
\* are the frames of the bytes read so far, in order.
C30_ChunkingIndependent == delivered = FramesOf(consumed)

\* C30 witness: two frames were delivered, each of whose length prefix and
\* payload took more than one read
C30_Witness ==
    /\ Len(delivered) = 2
    /\ delivered = framed
    /\ split = {"prefix", "payload"}

\* --------------------------------------------------------------- SpecWrite
\* the frames of the payloads in w, one after the other
RECURSIVE Framed(_)
Framed(w) == IF w = <<>> THEN <<>> ELSE Cat(Frame(Head(w)), Framed(Tail(w)))

\* no task is between two writes of one _send_data()
BetweenFrames == \A t \in Tasks : unwritten[t] = <<>>

\* C31: however the writes of the send task (queued items, its own
\* heartbeat) interleave with the heartbeats written from the receive task,
\* the bytes on the socket are whole frames one after the other, in the order
\* of the _send_data() calls: no frame has bytes of another one between its
\* length prefix and its payload.
C31_WholeFrames == BetweenFrames => socket = Framed(written)

\* C31 witness: the receive task wrote its heartbeat while the send task was
\* suspended in the drain between the two items of one batch, and both are in
\* a drain now
C31_Witness ==
    /\ Len(written) = 3
    /\ written[1] \in WriteData
    /\ written[2] = HeartbeatData
    /\ written[3] \in WriteData
    /\ written[1] # written[3]
    /\ writer_pc["send"] = "drain"
    /\ writer_pc["recv"] = "drain"
    /\ socket = Cat(Frame(written[1]), Cat(Frame(written[2]), Frame(written[3])))

\* -------------------------------------------------------- Spec, continued
\* caller c is suspended in send(), its Future not done
Suspended(c) == pc[c] = "waiting" /\ future[c] = "pending"

\* the entry under the id of caller c is the one of c
OwnEntry(c) ==
    msg_id[c] \in DOMAIN response_futures /\ response_futures[msg_id[c]] = c

\* C32: every caller suspended in send() has its own entry in the pending
\* map, whether its id was generated or passed in: no other send() has
\* replaced or removed it.
C32_SuspendedHasOwnEntry == \A c \in Callers : Suspended(c) => OwnEntry(c)

\* the same when no two calls were made with the same id
C32_SuspendedHasOwnEntryDistinctIds ==
    (\A c, d \in Callers : (c # d /\ msg_id[c] = msg_id[d]) => msg_id[c] = NoId)
    => \A c \in Callers : Suspended(c) => OwnEntry(c)

\* ----------------------------------------------------------- SpecSerialize
\* the last item of the send queue
LastQueued(q) == q[Len(q)]

\* C33: whatever kind of message send() is given (an inner message, a name
\* or payload type, an envelope built by the caller, bytes), the frame it
\* queues carries as clientMsgId the id under which its waiter is registered.
C33_QueuedFrameCarriesRegisteredId ==
    [][\A c \in Callers, given \in UserIds \cup {NoId}, form \in Forms,
          carried \in UserIds \cup {NoId} :
        (SendAny(c, given, form, carried) /\ pc'[c] = "waiting")
        => (/\ OwnEntry(c)'
            /\ LastQueued(send_queue').id = msg_id'[c])]_vars

\* the same of inner messages and of names or payload types only
C33_QueuedFrameCarriesRegisteredIdInner ==
    [][\A c \in Callers, given \in UserIds \cup {NoId}, form \in {"inner", "name"} :
        (SendAny(c, given, form, NoId) /\ pc'[c] = "waiting")
        => (/\ OwnEntry(c)'
            /\ LastQueued(send_queue').id = msg_id'[c])]_vars

\* ------------------------------------------------------ SpecToken, continued
\* a token file, in either key format, that has no issued_at
LacksIssuedAt(d) == d # NoFile /\ "issued_at" \notin DOMAIN d

\* C34: loading a token file without issued_at leaves a token in memory whose
\* issued_at is the time of the read, whether the keys of the file are the
\* old camelCase ones or the snake_case ones.
C34_IssuedAtDefaultsToReadTime ==
    [][\A writable \in BOOLEAN :
        (LacksIssuedAt(token_file) /\ LoadTokens(writable))
        => (token' # NoToken /\ token'.issued_at = wall_clock)]_vars

\* the same of the files with the old keys only
C34_IssuedAtDefaultsToReadTimeLegacy ==
    [][\A writable \in BOOLEAN :
        (/\ LacksIssuedAt(token_file)
         /\ "accessToken" \in DOMAIN token_file
         /\ LoadTokens(writable))
        => (token' # NoToken /\ token'.issued_at = wall_clock)]_vars

\* ------------------------------------------------------------- SpecTimeout
\* the effective timeout of a send(): the response_timeout of the call
\* whenever one is given, else the one of the client
Effective(response_timeout) ==
    IF response_timeout # NotGiven THEN response_timeout ELSE ClientTimeout

\* C35: a send() on a connected client that gets no response raises its
\* timeout no later than the effective timeout after the call, which is the
\* response_timeout of the call whenever one is given and the client's
\* otherwise: past that time no caller is still inside send().
C35_TimeoutWithinEffective ==
    \A c \in Callers :
        pc[c] = "waiting"
        => now <= send_call[c].at + Effective(send_call[c].response_timeout)

\* the same of the calls whose response_timeout is not 0
C35_TimeoutWithinEffectiveNotZero ==
    \A c \in Callers :
        (pc[c] = "waiting" /\ send_call[c].response_timeout # 0)
        => now <= send_call[c].at + Effective(send_call[c].response_timeout)

\* -------------------------------------------------------- Spec, once more
\* the requests written to the socket in this step
NewlyWritten == {wire'[i] : i \in (Len(wire) + 1)..Len(wire')}

\* the send() of caller c, made under a generated id, has ended in TimeoutError
TimedOut(c) == pc[c] = "TimeoutError" /\ msg_id[c] > 0

\* C36: once a send() has failed with a timeout its request is not written
\* to the socket any more: if it still waits in the send queue, it is dropped.
C36_TimedOutRequestNotWritten ==
    [][\A c \in Callers :
        TimedOut(c) => \A r \in NewlyWritten : r.id # msg_id[c]]_vars

\* the response f matches a pending request whose send() still waits, and
\* the on-message callback of the user raises when called with it
MatchedButRaises(f) ==
    /\ f.kind = "message"
    /\ f.raises
    /\ f.id \in DOMAIN response_futures
    /\ future[response_futures[f.id]] = "pending"

\* C37: a response whose clientMsgId matches a pending request completes the
\* waiter of that request even when the user's on-message callback raises an
\* exception for that message.
C37_CompletedThoughCallbackRaises ==
    [][\A f \in Frames :
        (MatchedButRaises(f) /\ ReceiveFrame(f))
        => (/\ future'[response_futures[f.id]] = "result"
            /\ response'[response_futures[f.id]] = f.id)]_vars

\* ----------------------------------------------------------- SpecReentrant
\* the on-message callback is suspended in a send() that still waits
WaitsInCallback(c) == callback_waits = c /\ Suspended(c)

\* a frame of the server is at hand for the receive task to read
FrameAtHand == recv_task = "running" /\ conn = "open" /\ inbox # <<>>

\* C38: a send() awaited from inside the on-message callback can get its
\* response: while the callback waits in it, the receive loop goes on
\* reading the frames that arrive, the response among them.
C38_ReadsWhileCallbackWaits ==
    \A c \in Callers :
        (WaitsInCallback(c) /\ FrameAtHand)
        => ENABLED (\E suspends \in BOOLEAN : ReceiverReads(suspends))

\* what holds instead: a send() awaited from inside the callback never
\* returns a response
C38_CallbackSendNeverReturns ==
    \A c \in Callers : callback_waits = c => pc[c] # "returned"

\* a state that is reached: the send() has timed out with its response,
\* sent by the server, still unread, the callback not yet back
C38_ResponseUnreadAtTimeout ==
    \E c \in Callers :
        /\ callback_waits = c
        /\ pc[c] = "TimeoutError"
        /\ recv_pc = "callback"
        /\ \E i \in DOMAIN inbox : inbox[i].id = msg_id[c]

\* ------------------------------------------------------ SpecWrite, continued
\* C39: AsyncTcpProtocol.is_connected is true only if the receive task and
\* the send task are both still running: when either loop has stopped (EOF,
\* read error, oversized frame, write error) is_connected is false.
C39_ConnectedOnlyWhileBothTasksRun ==
    protocol_is_connected => (recv_task = "running" /\ send_task = "running")

\* the same of the receive task alone
C39_ConnectedOnlyWhileReceiverRuns ==
    protocol_is_connected => recv_task = "running"

\* ------------------------------------------------------ Spec, continued
\* C40: AsyncClient.is_connected is true only while the protocol is
\* connected: once the server has closed the connection, or a transport
\* error has ended the receive loop, AsyncClient.is_connected is false.
\* (The steps inside disconnect(), which clears the protocol's flag before
\* it calls on_disconnected, are left out.)
C40_ClientConnectedOnlyWhileProtocolIs ==
    (client_is_connected /\ ~stopping) => protocol_is_connected

\* no step but the end of the receive loop on an open connection takes the
\* session from a state where this holds to one where it does not
C40_OnlyReceiverEndBreaksIt ==
    [][IF C40_ClientConnectedOnlyWhileProtocolIs
       THEN IF C40_ClientConnectedOnlyWhileProtocolIs'
            THEN TRUE
            ELSE \E how \in {"eof", "error", "oversize"} : ReceiverEnds(how)
       ELSE TRUE]_vars

====
